---- MODULE Spec2Model ----
(***************************************************************************)
(* Model of the ragpy chunking-and-embedding pipeline                      *)
(* (src/scripts/rad_chunk.py) and of its vector-database adapters          *)
(* (src/scripts/rad_vectordb.py).                                          *)
(*                                                                         *)
(* Spec      : initial chunking stage: the document worker threads of      *)
(*             process_all_documents, the two-pass recoding of             *)
(*             gpt_recode_batch and the locked JSON chunk store.           *)
(* SpecEmbed : dense stage followed by sparse stage over one chunk file.   *)
(* SpecVec   : the record-preparation functions of the three adapters.     *)
(***************************************************************************)
EXTENDS Integers, Sequences, FiniteSets, Bags, TLC

VARIABLES
    \* ---- initial chunking stage ----
    df,          \* the input DataFrame: a sequence of document rows
    store,       \* content of the chunk-store file json_file
    store0,      \* content of json_file when process_all_documents started
    SAVE_LOCK,   \* 0 when free, else the document task holding it
    task,        \* per document task: its position and its local variables
    appendLog,   \* chunk lists in the order their json.dump completed
    \* ---- dense and sparse stages ----
    emb,
    \* ---- vector-database adapters ----
    vec,
    \* ---- ingestion of the Zotero export with OCR ----
    ocr

chunkVars == <<df, store, store0, SAVE_LOCK, task, appendLog>>
vars == <<df, store, store0, SAVE_LOCK, task, appendLog, emb, vec, ocr>>

----------------------------------------------------------------------------
(* Bounds of the model *)

MaxDocs == 2          \* rows of the DataFrame
MaxSegs == 6          \* segments of a document processed alone
MaxConcSegs == 2      \* total segments of documents processed concurrently

(* Program constants *)

DEFAULT_BATCH_SIZE_GPT == 5
NumDocWorkers == 3

----------------------------------------------------------------------------
(* Python values *)

None == [py |-> "None"]
NaN == "<NaN>"

Min(a, b) == IF a < b THEN a ELSE b

\* s[start : start + size] with a 0-based start
Slice(s, start, size) == SubSeq(s, start + 1, Min(start + size, Len(s)))

RECURSIVE Flatten(_)
Flatten(ss) == IF ss = <<>> THEN <<>> ELSE Head(ss) \o Flatten(Tail(ss))

RECURSIVE SumSeq(_)
SumSeq(s) == IF s = <<>> THEN 0 ELSE Head(s) + SumSeq(Tail(s))

----------------------------------------------------------------------------
(* Documents and text *)

\* the k-th segment TEXT_SPLITTER.split_text yields for the text of row d
Segment(d, k) == [doc |-> d, seg |-> k, recoded |-> FALSE]

\* TEXT_SPLITTER.split_text(text): texteocr is described by the number of
\* segments it splits into, 0 standing for a text that is blank once stripped
SplitText(d, row) == [k \in 1..row.texteocr |-> Segment(d, k)]

\* resp.choices[0].message.content.strip() for the prompt built from chunk
RecodedText(chunk) == [chunk EXCEPT !.recoded = TRUE]

\* str(provider_raw).strip().lower(), a NaN provider counting as ""
NormalizeProvider(p) ==
    CASE p = NaN -> ""
      [] p = " Mistral " -> "mistral"
      [] OTHER -> p

recode_required(row) == NormalizeProvider(row.texteocr_provider) /= "mistral"

sanitize_metadata_value(value) == IF value = NaN THEN "" ELSE value

\* the metadata a row carries: provider and title, either of which may be NaN
RowProfiles ==
    { [texteocr_provider |-> "mistral",   title |-> "title"],
      [texteocr_provider |-> " Mistral ", title |-> NaN],
      [texteocr_provider |-> NaN,         title |-> "title"] }

Rows(maxseg) ==
    { [texteocr |-> n, texteocr_provider |-> m.texteocr_provider, title |-> m.title] :
        n \in 0..maxseg, m \in RowProfiles }

\* DataFrames: one document of up to MaxSegs segments, or up to MaxDocs
\* documents of one origin and of up to MaxConcSegs segments in total
DataFrames ==
    { <<r>> : r \in Rows(MaxSegs) } \cup
    { f \in UNION { [1..n -> Rows(MaxConcSegs)] : n \in 2..MaxDocs } :
        /\ SumSeq([i \in 1..Len(f) |-> f[i].texteocr]) <= MaxConcSegs
        /\ \A i \in 1..Len(f) : /\ f[i].title = f[1].title
                                /\ f[i].texteocr_provider = f[1].texteocr_provider }

----------------------------------------------------------------------------
(* The chunk-store file *)

Absent == [kind |-> "absent", items |-> <<>>]
JsonArray(items) == [kind |-> "array", items |-> items]
\* text that json.load rejects with JSONDecodeError (an empty file included)
BadJson == [kind |-> "badjson", items |-> <<>>]
\* bytes that are not UTF-8: reading them raises UnicodeDecodeError
BadUtf8 == [kind |-> "badutf8", items |-> <<>>]
\* a valid JSON document that is not an array
NonArray == [kind |-> "nonarray", items |-> <<>>]

\* a chunk persisted by an earlier run
OldChunk ==
    [id |-> <<1, 1>>, type |-> "", title |-> "old", doc_id |-> 1,
     chunk_index |-> 1, total_chunks |-> 1, text |-> Segment(0, 1),
     ocr_provider |-> ""]

InitialStores ==
    {Absent, JsonArray(<<>>), JsonArray(<<OldChunk>>), BadJson, BadUtf8, NonArray}

----------------------------------------------------------------------------
(* gpt_recode_batch *)

\* first free slot of a result list
FirstNone(recoded) ==
    CHOOSE i \in 1..Len(recoded) :
        recoded[i] = None /\ \A j \in 1..(i - 1) : recoded[j] /= None

StoreResultByCompletion(recoded, idx, value) ==
    [recoded EXCEPT ![FirstNone(recoded)] = value]

\* recoded[idx] = resp.choices[0].message.content.strip()
StoreResult(recoded, idx, value) == [recoded EXCEPT ![idx] = value]

RetryEveryChunk(text) == TRUE

\* if text is None: the first pass left no result for this chunk
NeedsRetry(text) == text = None

FallbackNone(chunks, i) == None

\* recoded[i] = chunks[i] once the second pass failed too
Fallback(chunks, i) == chunks[i]

----------------------------------------------------------------------------
(* process_document_chunks *)

ChunkIndexInBatch(start_index, i) == i

\* original_chunk_index = start_index + i + 1, i counted from 0 in the code
\* and from 1 here
ChunkIndex(start_index, i) == start_index + i

chunk_metadata(row, t, i) ==
    [id           |-> <<t.doc_id, ChunkIndex(t.start_index, i)>>,
     type         |-> sanitize_metadata_value(""),
     title        |-> sanitize_metadata_value(row.title),
     doc_id       |-> t.doc_id,
     chunk_index  |-> ChunkIndex(t.start_index, i),
     total_chunks |-> Len(t.text_chunks),
     text         |-> t.cleaned_batch[i],
     ocr_provider |-> sanitize_metadata_value(NormalizeProvider(row.texteocr_provider))]

----------------------------------------------------------------------------
(* save_raw_chunks_to_json_incrementally *)

NoLock(lock) == TRUE

\* with SAVE_LOCK: the lock can be taken when no task holds it
LockFree(lock) == lock = 0

OnlyNewChunks(existing_chunks, chunks_to_add) == chunks_to_add

\* merged_chunks = existing_chunks + chunks_to_add
MergedChunks(existing_chunks, chunks_to_add) == existing_chunks \o chunks_to_add

\* what the read of lines 175-181 leaves in existing_chunks, or the
\* exception that escapes it
ReadExisting(file) ==
    CASE file.kind = "absent"   -> [raised |-> FALSE, existing_chunks |-> <<>>]
      [] file.kind = "array"    -> [raised |-> FALSE, existing_chunks |-> file.items]
      [] file.kind = "badjson"  -> [raised |-> FALSE, existing_chunks |-> <<>>]
      [] file.kind = "badutf8"  -> [raised |-> TRUE,  existing_chunks |-> <<>>]
      [] file.kind = "nonarray" -> [raised |-> TRUE,  existing_chunks |-> <<>>]

----------------------------------------------------------------------------
(* The document tasks of process_all_documents *)

Docs == 1..Len(df)

IdleTask ==
    [pc |-> "queued", doc_id |-> 0, text_chunks |-> <<>>, start_index |-> 0,
     batch |-> <<>>, recoded |-> <<>>, pending |-> {}, attempts |-> <<>>,
     i |-> 0, sleeps |-> 0, cleaned_batch |-> <<>>, all_processed |-> <<>>,
     merged_chunks |-> <<>>]

\* doc_id = str(random.randint(10**11, 10**12 - 1)): the value drawn is one
\* already in use (by a started document, or in the file) or a fresh one;
\* ids are numbered in the order they first appear
UsedIds ==
    {task[e].doc_id : e \in {x \in Docs : task[x].pc /= "queued"}}
        \cup {store0.items[j].doc_id : j \in 1..Len(store0.items)} \cup {0}

DocIds == (UsedIds \ {0}) \cup {1 + CHOOSE m \in UsedIds : \A u \in UsedIds : u <= m}

Running(d) == task[d].pc \notin {"queued", "done", "raised"}

Init ==
    /\ df \in DataFrames
    /\ store0 \in InitialStores
    /\ store = store0
    /\ SAVE_LOCK = 0
    /\ task = [d \in 1..Len(df) |-> IdleTask]
    /\ appendLog = <<>>
    /\ emb = <<>>
    /\ vec = <<>>
    /\ ocr = <<>>

\* a worker of the pool takes the next submitted document (lines 195-216)
StartDocument(d) ==
    /\ task[d].pc = "queued"
    /\ \A e \in 1..(d - 1) : task[e].pc /= "queued"
    /\ Cardinality({e \in Docs : Running(e)}) < NumDocWorkers
    /\ IF df[d].texteocr = 0
         THEN task' = [task EXCEPT ![d].pc = "done"]
         ELSE \E id \in DocIds :
                task' = [task EXCEPT ![d].pc = "loop",
                                     ![d].doc_id = id,
                                     ![d].text_chunks = SplitText(d, df[d])]
    /\ UNCHANGED <<df, store, store0, SAVE_LOCK, appendLog, emb, vec, ocr>>

\* one iteration of the batch loop up to the recoding (lines 217-233)
NextBatch(d) ==
    LET t == task[d]
        batch_to_recode == Slice(t.text_chunks, t.start_index, DEFAULT_BATCH_SIZE_GPT)
        n == Len(batch_to_recode)
    IN  /\ t.pc = "loop"
        /\ t.start_index < Len(t.text_chunks)
        /\ IF recode_required(df[d])
             THEN task' = [task EXCEPT ![d].pc = "first_pass",
                                       ![d].batch = batch_to_recode,
                                       ![d].recoded = [j \in 1..n |-> None],
                                       ![d].pending = 1..n,
                                       ![d].attempts = [j \in 1..n |-> <<>>],
                                       ![d].sleeps = 0]
             ELSE task' = [task EXCEPT ![d].pc = "assemble",
                                       ![d].batch = batch_to_recode,
                                       ![d].cleaned_batch = batch_to_recode]
        /\ UNCHANGED <<df, store, store0, SAVE_LOCK, appendLog, emb, vec, ocr>>

\* one first-pass request completes, in any order (lines 141-147)
FirstPassDone(d, idx, ok) ==
    LET t == task[d]
    IN  /\ t.pc = "first_pass"
        /\ idx \in t.pending
        /\ task' = [task EXCEPT
                      ![d].pending = @ \ {idx},
                      ![d].attempts[idx] = IF ok THEN <<"ok">> ELSE <<"err">>,
                      ![d].recoded = IF ok
                                       THEN StoreResult(@, idx, RecodedText(t.batch[idx]))
                                       ELSE @]
        /\ UNCHANGED <<df, store, store0, SAVE_LOCK, appendLog, emb, vec, ocr>>

\* every future was harvested: the executor block ends (line 149)
ExecutorExit(d) ==
    /\ task[d].pc = "first_pass"
    /\ task[d].pending = {}
    /\ task' = [task EXCEPT ![d].pc = "second_pass", ![d].i = 1]
    /\ UNCHANGED <<df, store, store0, SAVE_LOCK, appendLog, emb, vec, ocr>>

\* one iteration of the sequential second pass on a chunk left without a
\* result: sleep, retry, fall back (lines 150-165)
SecondPassRetry(d, ok) ==
    LET t == task[d]
    IN  /\ t.pc = "second_pass"
        /\ t.i <= Len(t.recoded)
        /\ NeedsRetry(t.recoded[t.i])
        /\ task' = [task EXCEPT
                      ![d].sleeps = @ + 1,
                      ![d].attempts[t.i] = Append(@, IF ok THEN "ok" ELSE "err"),
                      ![d].recoded[t.i] = IF ok THEN RecodedText(t.batch[t.i])
                                                ELSE Fallback(t.batch, t.i),
                      ![d].i = @ + 1]
        /\ UNCHANGED <<df, store, store0, SAVE_LOCK, appendLog, emb, vec, ocr>>

\* one iteration of the second pass on a chunk that has its result
SecondPassSkip(d) ==
    LET t == task[d]
    IN  /\ t.pc = "second_pass"
        /\ t.i <= Len(t.recoded)
        /\ ~NeedsRetry(t.recoded[t.i])
        /\ task' = [task EXCEPT ![d].i = @ + 1]
        /\ UNCHANGED <<df, store, store0, SAVE_LOCK, appendLog, emb, vec, ocr>>

\* return recoded (line 167), bound to cleaned_batch (line 223)
ReturnRecoded(d) ==
    LET t == task[d]
    IN  /\ t.pc = "second_pass"
        /\ t.i > Len(t.recoded)
        /\ task' = [task EXCEPT ![d].pc = "assemble",
                                ![d].cleaned_batch = t.recoded]
        /\ UNCHANGED <<df, store, store0, SAVE_LOCK, appendLog, emb, vec, ocr>>

\* the records of the batch are appended (lines 235-263); the locals of
\* gpt_recode_batch are gone
AssembleChunks(d) ==
    LET t == task[d]
        records == [j \in 1..Len(t.cleaned_batch) |-> chunk_metadata(df[d], t, j)]
    IN  /\ t.pc = "assemble"
        /\ task' = [task EXCEPT
                      ![d].pc = "loop",
                      ![d].all_processed = @ \o records,
                      ![d].start_index = @ + DEFAULT_BATCH_SIZE_GPT,
                      ![d].batch = <<>>, ![d].recoded = <<>>, ![d].pending = {},
                      ![d].attempts = <<>>, ![d].i = 0, ![d].sleeps = 0,
                      ![d].cleaned_batch = <<>>]
        /\ UNCHANGED <<df, store, store0, SAVE_LOCK, appendLog, emb, vec, ocr>>

\* a variant that saves what is processed after any batch
SaveEachBatch(d) ==
    LET t == task[d]
    IN  /\ t.pc = "loop"
        /\ t.all_processed /= <<>>
        /\ task' = [task EXCEPT ![d].pc = "save"]
        /\ UNCHANGED <<df, store, store0, SAVE_LOCK, appendLog, emb, vec, ocr>>

\* the batch loop is over (line 265)
EndLoop(d) ==
    LET t == task[d]
    IN  /\ t.pc = "loop"
        /\ t.start_index >= Len(t.text_chunks)
        /\ task' = [task EXCEPT
                      ![d].pc = IF t.all_processed /= <<>> THEN "save" ELSE "done"]
        /\ UNCHANGED <<df, store, store0, SAVE_LOCK, appendLog, emb, vec, ocr>>

\* with SAVE_LOCK (line 173)
AcquireLock(d) ==
    /\ task[d].pc = "save"
    /\ LockFree(SAVE_LOCK)
    /\ SAVE_LOCK' = d
    /\ task' = [task EXCEPT ![d].pc = "read"]
    /\ UNCHANGED <<df, store, store0, appendLog, emb, vec, ocr>>

\* read and merge (lines 174-183); an exception leaves the with block,
\* releasing the lock, and ends the task
ReadStore(d) ==
    LET r == ReadExisting(store)
    IN  /\ task[d].pc = "read"
        /\ IF r.raised
             THEN /\ task' = [task EXCEPT ![d].pc = "raised"]
                  /\ SAVE_LOCK' = IF SAVE_LOCK = d THEN 0 ELSE SAVE_LOCK
             ELSE /\ task' = [task EXCEPT
                                ![d].pc = "write",
                                ![d].merged_chunks =
                                    MergedChunks(r.existing_chunks, task[d].all_processed)]
                  /\ UNCHANGED SAVE_LOCK
        /\ UNCHANGED <<df, store, store0, appendLog, emb, vec, ocr>>

\* open(json_file, 'w') truncates the file (line 184)
OpenForWrite(d) ==
    /\ task[d].pc = "write"
    /\ store' = BadJson
    /\ task' = [task EXCEPT ![d].pc = "dump"]
    /\ UNCHANGED <<df, store0, SAVE_LOCK, appendLog, emb, vec, ocr>>

\* json.dump(merged_chunks, f) and close (line 185)
DumpStore(d) ==
    /\ task[d].pc = "dump"
    /\ store' = JsonArray(task[d].merged_chunks)
    /\ appendLog' = Append(appendLog, task[d].all_processed)
    /\ task' = [task EXCEPT ![d].pc = "release"]
    /\ UNCHANGED <<df, store0, SAVE_LOCK, emb, vec, ocr>>

\* the with block ends; process_document_chunks returns all_processed_chunks
ReleaseLock(d) ==
    /\ task[d].pc = "release"
    /\ SAVE_LOCK' = IF SAVE_LOCK = d THEN 0 ELSE SAVE_LOCK
    /\ task' = [task EXCEPT ![d].pc = "done", ![d].merged_chunks = <<>>]
    /\ UNCHANGED <<df, store, store0, appendLog, emb, vec, ocr>>

Next ==
    \/ \E d \in Docs : StartDocument(d)
    \/ \E d \in Docs : NextBatch(d)
    \/ \E d \in Docs, idx \in 1..DEFAULT_BATCH_SIZE_GPT, ok \in BOOLEAN :
          FirstPassDone(d, idx, ok)
    \/ \E d \in Docs : ExecutorExit(d)
    \/ \E d \in Docs, ok \in BOOLEAN : SecondPassRetry(d, ok)
    \/ \E d \in Docs : SecondPassSkip(d)
    \/ \E d \in Docs : ReturnRecoded(d)
    \/ \E d \in Docs : AssembleChunks(d)
    \/ \E d \in Docs : EndLoop(d)
    \/ \E d \in Docs : AcquireLock(d)
    \/ \E d \in Docs : ReadStore(d)
    \/ \E d \in Docs : OpenForWrite(d)
    \/ \E d \in Docs : DumpStore(d)
    \/ \E d \in Docs : ReleaseLock(d)

Spec == Init /\ [][Next]_vars

----------------------------------------------------------------------------
(* Properties of the initial chunking stage *)

Count(seq, x) == Cardinality({j \in 1..Len(seq) : seq[j] = x})

InCriticalSection(d) == task[d].pc \in {"read", "write", "dump", "release"}

AllReturned == \A d \in Docs : task[d].pc = "done"

SavedDocs == {d \in Docs : task[d].pc = "done" /\ task[d].all_processed /= <<>>}

\* seq holds part as a run of consecutive elements
HoldsRun(seq, part) ==
    \E off \in 0..(Len(seq) - Len(part)) :
        SubSeq(seq, off + 1, off + Len(part)) = part

\* C2: the read-merge-write cycles of concurrent
\* save_raw_chunks_to_json_incrementally calls never overlap, and once every
\* call has returned the file is a JSON array holding every chunk of every
\* call exactly once, beside what the file held before.
C2_SavesSerialized ==
    /\ Cardinality({d \in Docs : InCriticalSection(d)}) <= 1
    /\ \A d \in Docs : InCriticalSection(d) => SAVE_LOCK = d
    /\ (AllReturned /\ SavedDocs /= {}) =>
          /\ store.kind = "array"
          /\ \A d \in SavedDocs : \A j \in 1..Len(task[d].all_processed) :
                Count(store.items, task[d].all_processed[j]) = 1
          /\ Len(store.items) =
                Len(ReadExisting(store0).existing_chunks)
                  + SumSeq([d \in 1..Len(df) |-> Len(task[d].all_processed)])

C2_Witness ==
    /\ Len(df) >= 2
    /\ AllReturned
    /\ SavedDocs = Docs
    /\ task[2].all_processed = appendLog[1]
    /\ task[1].all_processed = appendLog[2]

\* C3: from an absent store or a stored array, after the appends B1, ..., Bn
\* the file holds the array it held before followed by B1, ..., Bn in that
\* order.
C3_AppendsConcatenate ==
    (store0.kind \in {"absent", "array"} /\ SAVE_LOCK = 0 /\ appendLog /= <<>>) =>
        store = JsonArray(store0.items \o Flatten(appendLog))

C3_Witness ==
    /\ store0 \in {Absent, JsonArray(<<>>)}
    /\ SAVE_LOCK = 0
    /\ Len(appendLog) = 2
    /\ Len(store.items) >= 2

\* C4: when the store file exists and does not hold valid JSON, no call of
\* save_raw_chunks_to_json_incrementally fails and after the calls the file
\* holds exactly the appended chunks.
C4_InvalidJsonTreatedAsEmpty ==
    store0.kind \in {"badjson", "badutf8"} =>
        /\ \A d \in Docs : task[d].pc /= "raised"
        /\ (SAVE_LOCK = 0 /\ appendLog /= <<>>) =>
              store = JsonArray(Flatten(appendLog))

\* C5: a document with non-empty text split into N segments returns N chunk
\* records in segment order, with chunk_index 1..N, total_chunks N and id
\* doc_id_chunk_index, and they are in the file, whichever recoding calls
\* failed and whether or not recoding was skipped.
C5_OneRecordPerSegment ==
    \A d \in Docs :
        (task[d].pc = "done" /\ df[d].texteocr > 0) =>
            LET r == task[d].all_processed
                N == df[d].texteocr
            IN  /\ Len(r) = N
                /\ \A k \in 1..N :
                      /\ r[k].chunk_index = k
                      /\ r[k].total_chunks = N
                      /\ r[k].id = <<task[d].doc_id, k>>
                      /\ r[k].doc_id = task[d].doc_id
                      /\ r[k].text \in {Segment(d, k), RecodedText(Segment(d, k))}
                /\ store.kind = "array" => HoldsRun(store.items, r)

C5_Witness ==
    \E d \in Docs :
        /\ task[d].pc = "done"
        /\ df[d].texteocr > DEFAULT_BATCH_SIZE_GPT
        /\ recode_required(df[d])
        /\ task[d].all_processed[2].text = Segment(d, 2)
        /\ task[d].all_processed[df[d].texteocr].text = RecodedText(Segment(d, df[d].texteocr))
        /\ store.kind = "array"

\* C6: whatever the completion order of the first-pass calls, the list
\* gpt_recode_batch returns is as long as its input and holds at position i
\* the result for input chunk i, so chunk_index k labels the text of the
\* k-th segment.
C6_ResultsKeepInputPositions ==
    \A d \in Docs :
        LET t == task[d]
        IN  /\ t.pc \in {"first_pass", "second_pass"} =>
                /\ Len(t.recoded) = Len(t.batch)
                /\ \A j \in 1..Len(t.recoded) :
                      t.recoded[j] \in {None, t.batch[j], RecodedText(t.batch[j])}
            /\ (t.pc = "assemble" /\ recode_required(df[d])) =>
                /\ Len(t.cleaned_batch) = Len(t.batch)
                /\ \A j \in 1..Len(t.batch) :
                      t.cleaned_batch[j] \in {t.batch[j], RecodedText(t.batch[j])}
            /\ \A j \in 1..Len(t.all_processed) :
                  LET c == t.all_processed[j]
                  IN  c.text \in {t.text_chunks[c.chunk_index],
                                  RecodedText(t.text_chunks[c.chunk_index])}

\* the call for chunk 2 completed and was stored while that for chunk 1 runs
C6_Witness ==
    \E d \in Docs :
        /\ task[d].pc = "first_pass"
        /\ 1 \in task[d].pending
        /\ Len(task[d].recoded) >= 2
        /\ task[d].recoded[2] = RecodedText(task[d].batch[2])

\* C7: a chunk whose first-pass call and whose retry both raised is returned
\* as its original text, and the results of the other chunks of the batch
\* are those of their own calls.
C7_FallbackToOriginal ==
    \A d \in Docs :
        LET t == task[d]
        IN  (t.pc = "assemble" /\ recode_required(df[d])) =>
                \A j \in 1..Len(t.batch) :
                    /\ t.attempts[j] = <<"err", "err">> => t.cleaned_batch[j] = t.batch[j]
                    /\ t.attempts[j] \in {<<"ok">>, <<"err", "ok">>} =>
                          t.cleaned_batch[j] = RecodedText(t.batch[j])

C7_Witness ==
    \E d \in Docs :
        /\ task[d].pc = "assemble"
        /\ Len(task[d].batch) = 3
        /\ task[d].attempts = <<<<"ok">>, <<"err", "err">>, <<"err", "ok">>>>
        /\ task[d].cleaned_batch[2] = task[d].batch[2]

Retried(t) == {j \in 1..Len(t.attempts) : Len(t.attempts[j]) = 2}

\* C8: each chunk gets at most two text-generation calls; the second is made
\* once, after one sleep, exactly for the chunks whose first-pass call
\* raised, in order, and only after every first-pass call has completed.
C8_OneSequentialRetry ==
    \A d \in Docs :
        LET t == task[d]
        IN  /\ \A j \in 1..Len(t.attempts) :
                  /\ Len(t.attempts[j]) <= 2
                  /\ Len(t.attempts[j]) = 2 => t.attempts[j][1] = "err"
                  /\ Len(t.attempts[j]) = 0 => j \in t.pending
            /\ Retried(t) /= {} => (t.pending = {} /\ t.pc /= "first_pass")
            /\ t.sleeps = Cardinality(Retried(t))
            /\ t.pc = "second_pass" => \A j \in Retried(t) : j < t.i
            /\ (t.pc = "assemble" /\ recode_required(df[d])) =>
                  \A j \in 1..Len(t.attempts) :
                      Len(t.attempts[j]) = 2 <=> t.attempts[j][1] = "err"

C8_Witness ==
    \E d \in Docs :
        /\ task[d].pc = "assemble"
        /\ Len(task[d].attempts) = DEFAULT_BATCH_SIZE_GPT
        /\ Len(task[d].attempts[1]) = 1
        /\ Len(task[d].attempts[3]) = 2
        /\ task[d].sleeps = 2

\* the chunk records the run has written to the chunk store
WrittenChunks == Flatten(appendLog)

\* C30 as stated: no two chunk records written by one run share an id:
\* documents receive different doc_ids, and a document uses each
\* chunk_index once.
C30_ChunkIdsUnique ==
    /\ \A i, j \in 1..Len(WrittenChunks) :
          i /= j => WrittenChunks[i].id /= WrittenChunks[j].id
    /\ \A d, e \in Docs :
          (d /= e /\ task[d].doc_id /= 0 /\ task[e].doc_id /= 0) =>
              task[d].doc_id /= task[e].doc_id

\* what holds: the records of one document have the chunk_index values
\* 1..N, each once, so two records with one id are of different documents
C30_ChunkIndexUsedOncePerDocument ==
    /\ \A n \in 1..Len(appendLog) :
          \A k \in 1..Len(appendLog[n]) : appendLog[n][k].chunk_index = k
    /\ \A i, j \in 1..Len(WrittenChunks) :
          (i /= j /\ WrittenChunks[i].id = WrittenChunks[j].id) =>
              WrittenChunks[i].text.doc /= WrittenChunks[j].text.doc

C30_TwoDocumentsOneDocId ==
    /\ Len(df) = 2
    /\ \A d \in Docs : task[d].pc = "done"
    /\ store0 = Absent
    /\ store.kind = "array"
    /\ Len(store.items) = 2
    /\ store.items[1].id = store.items[2].id
    /\ store.items[1].text.doc /= store.items[2].text.doc

\* the positions of the store that hold chunks of document d
StoredOf(d) == {j \in 1..Len(store.items) : store.items[j].text.doc = d}

\* the saves of document d the run has made
SavesOf(d) ==
    {n \in 1..Len(appendLog) : appendLog[n] /= <<>> /\ appendLog[n][1].text.doc = d}

\* C39: process_document_chunks writes to the chunk store at most once per
\* document and only after every batch of the document is processed; at
\* every moment the store holds, of a document, none of its chunks or all
\* total_chunks of them, and of every doc_id it holds every chunk_index up
\* to the total_chunks its chunks carry.
C39_StoreHoldsWholeDocuments ==
    /\ \A d \in Docs :
          LET t == task[d]
          IN  /\ Cardinality(SavesOf(d)) <= 1
              /\ t.pc \in {"save", "read", "write", "dump", "release"} =>
                    /\ t.start_index >= Len(t.text_chunks)
                    /\ Len(t.all_processed) = Len(t.text_chunks)
              /\ t.pc \notin {"release", "done"} => (StoredOf(d) = {} /\ SavesOf(d) = {})
              /\ \/ StoredOf(d) = {}
                 \/ /\ Cardinality(StoredOf(d)) = Len(t.text_chunks)
                    /\ {store.items[j].chunk_index : j \in StoredOf(d)}
                          = 1..Len(t.text_chunks)
                    /\ \A j \in StoredOf(d) :
                          /\ store.items[j].total_chunks = Len(t.text_chunks)
                          /\ store.items[j].doc_id = t.doc_id
    /\ \A j \in 1..Len(store.items) :
          \A i \in 1..store.items[j].total_chunks :
             \E k \in 1..Len(store.items) :
                /\ store.items[k].doc_id = store.items[j].doc_id
                /\ store.items[k].chunk_index = i

\* a document of two batches is in the store, after the chunk of an
\* earlier run, with all its chunks
C39_Witness ==
    \E d \in Docs :
       /\ task[d].pc = "done"
       /\ Len(task[d].text_chunks) > DEFAULT_BATCH_SIZE_GPT
       /\ store0 = JsonArray(<<OldChunk>>)
       /\ Len(store.items) = 1 + Len(task[d].text_chunks)

\* the first batch of a document of two batches is processed and the store
\* is as the run found it
C39_WitnessBetweenBatches ==
    \E d \in Docs :
       /\ task[d].pc = "loop"
       /\ Len(task[d].all_processed) = DEFAULT_BATCH_SIZE_GPT
       /\ Len(task[d].text_chunks) > DEFAULT_BATCH_SIZE_GPT
       /\ store = store0
       /\ appendLog = <<>>

----------------------------------------------------------------------------
(* Dense and sparse embedding stages: generate_and_save_embeddings followed *)
(* by generate_sparse_embeddings, as the driver chains them                 *)

MaxChunks == 3        \* chunks of a small input file

DEFAULT_EMBEDDING_BATCH_SIZE == 32
SnapshotEvery == 1000

\* chunk.get(key, default)
Get(chunk, key, default) == IF key \in DOMAIN chunk THEN chunk[key] ELSE default

Put(chunk, key, value) ==
    [k \in DOMAIN chunk \cup {key} |-> IF k = key THEN value ELSE chunk[k]]

Without(chunk, key) == [k \in DOMAIN chunk \ {key} |-> chunk[k]]

EmptyText == [py |-> "str", value |-> ""]
\* a text on which the language model raises
UnparsableText(d, k) == [doc |-> d, seg |-> k, recoded |-> FALSE, unparsable |-> TRUE]

\* the text of the k-th chunk of a file, of the given kind
TextOfKind(kind, d, k) ==
    CASE kind = "empty" -> EmptyText
      [] kind = "unparsable" -> UnparsableText(d, k)
      [] OTHER -> Segment(d, k)

\* a chunk as the previous stage wrote it; pos is its place in the file; a
\* chunk of kind "missing" has no text field
StoredChunk(doc, kind, pos) ==
    CASE doc = 0 ->
           [id |-> <<doc, pos>>, chunk_index |-> pos, text |-> TextOfKind(kind, doc, pos)]
      [] doc /= 0 /\ kind = "missing" ->
           [id |-> <<doc, pos>>, doc_id |-> doc, chunk_index |-> pos]
      [] OTHER ->
           [id |-> <<doc, pos>>, doc_id |-> doc, chunk_index |-> pos,
            text |-> TextOfKind(kind, doc, pos)]

ChunkKinds ==
    {<<1, "text">>, <<1, "empty">>, <<1, "unparsable">>, <<1, "missing">>,
     <<2, "text">>, <<2, "empty">>, <<0, "text">>}

\* input files: absent, not JSON, a small array of chunks of any kinds, or
\* one document a few chunks longer than an embedding batch
EmbeddingInputs ==
    {Absent, BadJson} \cup
    { JsonArray([j \in DOMAIN f |-> StoredChunk(f[j][1], f[j][2], j)]) :
        f \in UNION { [1..n -> ChunkKinds] : n \in 0..MaxChunks } } \cup
    { JsonArray([j \in 1..(DEFAULT_EMBEDDING_BATCH_SIZE + n) |->
          StoredChunk(1, IF j = DEFAULT_EMBEDDING_BATCH_SIZE + n THEN k ELSE "text", j)]) :
        n \in 1..MaxChunks, k \in {"text", "empty"} }

\* the vector the embedding model returns for a text
Embedding(text) == [py |-> "list", of |-> text]

\* chunks_by_doc (lines 364-369): groups in order of first appearance, each
\* with its chunks in file order
GroupByDoc(chunks, groups) ==
    LET DocOf(c) == Get(c, "doc_id", 0)
        Of(doc_id) == SelectSeq(chunks, LAMBDA c : DocOf(c) = doc_id)
        known == {groups[g].doc_id : g \in 1..Len(groups)}
        firsts == SelectSeq([j \in 1..Len(chunks) |-> j],
                            LAMBDA j : /\ DocOf(chunks[j]) \notin known
                                       /\ \A k \in 1..(j - 1) :
                                             DocOf(chunks[k]) /= DocOf(chunks[j]))
    IN  [g \in 1..Len(groups) |->
            [groups[g] EXCEPT !.chunks = @ \o Of(groups[g].doc_id)]]
        \o [n \in 1..Len(firsts) |->
              [doc_id |-> DocOf(chunks[firsts[n]]),
               chunks |-> Of(DocOf(chunks[firsts[n]]))]]

NoEmbeddings(texts) == <<>>

\* return [None] * len(texts) (line 318)
FailedEmbeddings(texts) == [j \in 1..Len(texts) |-> None]

RECURSIVE DropUnembedded(_, _)
DropUnembedded(chunks_batch, embeddings) ==
    IF chunks_batch = <<>> \/ embeddings = <<>> THEN <<>>
    ELSE (IF Head(embeddings) = None THEN <<>>
          ELSE <<Put(Head(chunks_batch), "embedding", Head(embeddings))>>)
         \o DropUnembedded(Tail(chunks_batch), Tail(embeddings))

\* a variant that hands the embeddings out from the last to the first
AssignReversed(chunks_batch, embeddings) ==
    [j \in 1..Len(chunks_batch) |->
        IF j <= Len(embeddings)
          THEN Put(chunks_batch[j], "embedding", embeddings[Len(embeddings) + 1 - j])
          ELSE chunks_batch[j]]

\* process_chunks_for_embedding (lines 328-335): the i-th embedding goes to
\* the i-th chunk of the batch
AssignEmbeddings(chunks_batch, embeddings) ==
    [j \in 1..Len(chunks_batch) |->
        IF j <= Len(embeddings)
          THEN Put(chunks_batch[j], "embedding", embeddings[j])
          ELSE chunks_batch[j]]

EmptySparse == [indices |-> <<>>, values |-> <<>>]

\* extract_sparse_features(text): the features of the text, or an exception
extract_sparse_features(text) ==
    IF "unparsable" \in DOMAIN text
      THEN [raised |-> TRUE, features |-> EmptySparse]
      ELSE [raised |-> FALSE,
            features |-> [indices |-> <<text.seg>>, values |-> <<1>>]]

SkipFailedSparse(chunk, sparse_embedding, raised) ==
    IF raised THEN chunk ELSE Put(chunk, "sparse_embedding", sparse_embedding)

\* all_chunks[i]["sparse_embedding"] = sparse_embedding (line 478)
SetSparse(chunk, sparse_embedding, raised) ==
    Put(chunk, "sparse_embedding", sparse_embedding)

IdleEmb ==
    [pc |-> "dense", input |-> Absent, chunks_by_doc |-> <<>>, doc |-> 0, i |-> 0,
     embedded_doc_chunks |-> <<>>, all_chunks_with_embeddings |-> <<>>,
     processed_chunk_count |-> 0, attempts |-> <<>>, sleeps |-> 0, batches |-> <<>>,
     temp_file |-> Absent, dense_file |-> Absent,
     all_chunks |-> <<>>, sparse_file |-> Absent]

InitEmbed ==
    /\ df = <<>>
    /\ store0 = Absent
    /\ store = Absent
    /\ SAVE_LOCK = 0
    /\ task = <<>>
    /\ appendLog = <<>>
    /\ vec = <<>>
    /\ ocr = <<>>
    /\ \E f \in EmbeddingInputs : emb = [IdleEmb EXCEPT !.input = f]

\* lines 354-369: no input file, an input that is not JSON, or load and group
LoadChunks ==
    /\ emb.pc = "dense"
    /\ emb' = CASE emb.input.kind = "absent" -> [emb EXCEPT !.pc = "exit"]
                [] emb.input.kind = "array" ->
                     [emb EXCEPT !.pc = "doc", !.doc = 1,
                                 !.chunks_by_doc = GroupByDoc(emb.input.items, <<>>)]
                [] OTHER -> [emb EXCEPT !.pc = "raised"]
    /\ UNCHANGED <<chunkVars, vec, ocr>>

CurrentDoc == emb.chunks_by_doc[emb.doc].chunks
CurrentBatch == Slice(CurrentDoc, emb.i, DEFAULT_EMBEDDING_BATCH_SIZE)
TextsToEmbed == [j \in 1..Len(CurrentBatch) |-> Get(CurrentBatch[j], "text", EmptyText)]

\* the next document of chunks_by_doc is taken (lines 382-385)
NextDoc ==
    /\ emb.pc = "doc"
    /\ emb.doc <= Len(emb.chunks_by_doc)
    /\ emb' = [emb EXCEPT !.pc = "batch", !.i = 0, !.embedded_doc_chunks = <<>>]
    /\ UNCHANGED <<chunkVars, vec, ocr>>

\* the batch with its embeddings joins embedded_doc_chunks (lines 388-389)
BatchDone(e, embeddings, attempts) ==
    [e EXCEPT !.pc = "batch",
              !.i = @ + DEFAULT_EMBEDDING_BATCH_SIZE,
              !.embedded_doc_chunks = @ \o AssignEmbeddings(CurrentBatch, embeddings),
              !.attempts = <<>>,
              !.batches = Append(@, [ids |-> [j \in 1..Len(CurrentBatch) |-> CurrentBatch[j].id],
                                      attempts |-> attempts])]

\* get_embeddings_batch, first request (lines 305-311)
EmbedBatch(ok) ==
    /\ emb.pc = "batch"
    /\ emb.i < Len(CurrentDoc)
    /\ emb' = IF ok
                THEN BatchDone(emb, [j \in 1..Len(TextsToEmbed) |-> Embedding(TextsToEmbed[j])],
                               <<"ok">>)
                ELSE [emb EXCEPT !.pc = "retry", !.attempts = <<"err">>, !.sleeps = @ + 1]
    /\ UNCHANGED <<chunkVars, vec, ocr>>

\* get_embeddings_batch, the retry after the pause (lines 312-318)
EmbedRetry(ok) ==
    /\ emb.pc = "retry"
    /\ emb' = IF ok
                THEN BatchDone(emb, [j \in 1..Len(TextsToEmbed) |-> Embedding(TextsToEmbed[j])],
                               <<"err", "ok">>)
                ELSE BatchDone(emb, FailedEmbeddings(TextsToEmbed), <<"err", "err">>)
    /\ UNCHANGED <<chunkVars, vec, ocr>>

\* the document's batches are done (lines 392-399), with the temporary
\* snapshot when the count falls just after a multiple of SnapshotEvery
EndDoc ==
    LET all == emb.all_chunks_with_embeddings \o emb.embedded_doc_chunks
        count == emb.processed_chunk_count + Len(emb.embedded_doc_chunks)
    IN  /\ emb.pc = "batch"
        /\ emb.i >= Len(CurrentDoc)
        /\ emb' = [emb EXCEPT
                     !.pc = "doc", !.doc = @ + 1, !.i = 0,
                     !.embedded_doc_chunks = <<>>,
                     !.all_chunks_with_embeddings = all,
                     !.processed_chunk_count = count,
                     !.temp_file =
                        IF count > 0 /\ count % SnapshotEvery < DEFAULT_EMBEDDING_BATCH_SIZE
                          THEN JsonArray(all) ELSE @]
        /\ UNCHANGED <<chunkVars, vec, ocr>>

\* the final overwrite of the dense output (lines 401-403); the driver goes
\* on to the sparse stage (lines 610-634)
SaveDense ==
    /\ emb.pc = "doc"
    /\ emb.doc > Len(emb.chunks_by_doc)
    /\ emb' = [emb EXCEPT !.pc = "sparse",
                          !.dense_file = JsonArray(emb.all_chunks_with_embeddings)]
    /\ UNCHANGED <<chunkVars, vec, ocr>>

\* generate_sparse_embeddings loads its input (lines 457-464)
LoadDense ==
    /\ emb.pc = "sparse"
    /\ emb' = [emb EXCEPT !.pc = "sparse_loop", !.i = 1,
                          !.all_chunks = emb.dense_file.items]
    /\ UNCHANGED <<chunkVars, vec, ocr>>

\* one iteration of the loop over all_chunks (lines 466-478)
SparseChunk ==
    LET chunk == emb.all_chunks[emb.i]
        chunk_text == Get(chunk, "text", EmptyText)
        r == extract_sparse_features(chunk_text)
        sparse_embedding == IF chunk_text = EmptyText \/ r.raised
                              THEN EmptySparse ELSE r.features
    IN  /\ emb.pc = "sparse_loop"
        /\ emb.i <= Len(emb.all_chunks)
        /\ emb' = [emb EXCEPT
                     !.i = @ + 1,
                     !.all_chunks[emb.i] =
                        SetSparse(chunk, sparse_embedding, chunk_text /= EmptyText /\ r.raised)]
        /\ UNCHANGED <<chunkVars, vec, ocr>>

\* the overwrite of the sparse output (line 486)
SaveSparse ==
    /\ emb.pc = "sparse_loop"
    /\ emb.i > Len(emb.all_chunks)
    /\ emb' = [emb EXCEPT !.pc = "done", !.sparse_file = JsonArray(emb.all_chunks)]
    /\ UNCHANGED <<chunkVars, vec, ocr>>

NextEmbed ==
    \/ LoadChunks
    \/ NextDoc
    \/ \E ok \in BOOLEAN : EmbedBatch(ok)
    \/ \E ok \in BOOLEAN : EmbedRetry(ok)
    \/ EndDoc
    \/ SaveDense
    \/ LoadDense
    \/ SparseChunk
    \/ SaveSparse

SpecEmbed == InitEmbed /\ [][NextEmbed]_vars

----------------------------------------------------------------------------
(* Vector database adapters (rad_vectordb.py): the records prepared for     *)
(* Pinecone and Qdrant, and the batches built for Weaviate                  *)

MaxVecChunks == 3     \* chunks of a small chunks file
MaxExtra == 2         \* chunks beyond one full Weaviate batch

WEAVIATE_BATCH_SIZE == 100

\* a date string: what it is made of (empty, blanks, a year, a year and a
\* month, a date, a date and a time, a date and a time with the UTC mark,
\* anything else) and the year, month, day, hour, minute, second it names
DateStr(form, names) == [py |-> "str", form |-> form, names |-> names]

EmptyDate == DateStr("empty", <<>>)

\* the dates of the chunks of a file, by position: "", "2021", "  ",
\* "2023-05", "2023-01-15", "2023-01-15T10:20:30", "2023-01-15T10:20:30Z",
\* "invalid date", null, 2023, "2023-13"
DateForms ==
    <<EmptyDate,
      DateStr("year", <<2021>>),
      DateStr("blank", <<>>),
      DateStr("year_month", <<2023, 5>>),
      DateStr("date", <<2023, 1, 15, 0, 0, 0>>),
      DateStr("datetime", <<2023, 1, 15, 10, 20, 30>>),
      DateStr("aware", <<2023, 1, 15, 10, 20, 30>>),
      DateStr("garbage", <<>>),
      None,
      [py |-> "int", value |-> 2023],
      DateStr("year_month", <<2023, 13>>)>>

DateAt(pos) == DateForms[((pos - 1) % Len(DateForms)) + 1]

\* a value of a sparse vector: a number, or a string that is not one
Float(num, den) == [py |-> "float", num |-> num, den |-> den]
NotANumber == [py |-> "str", value |-> "c"]

\* sparse data as the sparse stage writes it, indices as strings
ValidSparse == [indices |-> <<"7", "3">>, values |-> <<Float(1, 3), Float(2, 3)>>]

\* a chunk of the final file: e and s say what the two embedding fields hold
VecChunk(pos, e, s) ==
    LET base == [id |-> <<1, pos>>, doc_id |-> 1, chunk_index |-> pos,
                 title |-> "title", date |-> DateAt(pos),
                 text |-> Segment(1, pos)]
        dense == CASE e = "absent" -> base
                   [] e = "null" -> Put(base, "embedding", None)
                   [] OTHER -> Put(base, "embedding", Embedding(base.text))
    IN  CASE s = "absent" -> dense
          [] s = "uncoercible" ->
               Put(dense, "sparse_embedding",
                   [ValidSparse EXCEPT !.indices = <<"7", "x">>])
          [] s = "bad_values" ->
               Put(dense, "sparse_embedding",
                   [ValidSparse EXCEPT !.values = <<Float(1, 3), NotANumber>>])
          [] OTHER -> Put(dense, "sparse_embedding", ValidSparse)

VecKinds == {"absent", "null", "list"} \X {"absent", "uncoercible", "bad_values", "valid"}

\* small files of any chunks, and files a few chunks longer than a batch
\* whose tail, or every other chunk, or no chunk, lacks its embedding
VecInputs ==
    { [j \in DOMAIN f |-> VecChunk(j, f[j][1], f[j][2])] :
        f \in UNION { [1..n -> VecKinds] : n \in 0..MaxVecChunks } } \cup
    { [j \in 1..(WEAVIATE_BATCH_SIZE + n) |->
          VecChunk(j, CASE p = "tail" -> (IF j > WEAVIATE_BATCH_SIZE THEN "null" ELSE "list")
                        [] p = "alternate" -> (IF j % 2 = 0 THEN "absent" ELSE "list")
                        [] OTHER -> "list",
                   "valid")] :
        n \in 1..MaxExtra, p \in {"tail", "alternate", "all"} }

HasEmbeddingKey(chunk) == "embedding" \in DOMAIN chunk

\* chunk.get("embedding") is not None (lines 64-66, 498, 583-585)
HasEmbedding(chunk) == Get(chunk, "embedding", None) /= None

\* the nine metadata fields every adapter copies (lines 71-79, 502-510, 593-601)
Metadata(chunk) ==
    [title |-> Get(chunk, "title", ""), authors |-> Get(chunk, "authors", ""),
     date |-> Get(chunk, "date", EmptyDate), type |-> Get(chunk, "type", ""),
     filename |-> Get(chunk, "filename", ""), doc_id |-> Get(chunk, "doc_id", ""),
     chunk_index |-> Get(chunk, "chunk_index", 0),
     total_chunks |-> Get(chunk, "total_chunks", 0),
     chunk_text |-> Get(chunk, "chunk_text", EmptyText)]

\* int(i) on an index string: its value, or ValueError
IntOf(i) ==
    CASE i = "7" -> [raised |-> FALSE, value |-> 7]
      [] i = "3" -> [raised |-> FALSE, value |-> 3]
      [] OTHER -> [raised |-> TRUE, value |-> 0]

\* float(v): the number, or ValueError
FloatOf(v) == [raised |-> v.py /= "float", value |-> v]

\* a variant that keeps the indices and values coerced before the failure
PartialSparseVector(chunk) ==
    LET vector_data == [id |-> chunk.id, values |-> chunk.embedding,
                        metadata |-> Metadata(chunk)]
        sparse == Get(chunk, "sparse_embedding", None)
    IN  IF sparse = None THEN vector_data
        ELSE Put(vector_data, "sparse_values",
                 [indices |-> SelectSeq([j \in 1..Len(sparse.indices) |->
                                            IntOf(sparse.indices[j]).value],
                                        LAMBDA i : i /= 0),
                  values |-> SelectSeq(sparse.values, LAMBDA v : ~FloatOf(v).raised)])

\* lines 67-102: the vector of one chunk, with sparse_values when coercible
PineconeVector(chunk) ==
    LET vector_data == [id |-> chunk.id, values |-> chunk.embedding,
                        metadata |-> Metadata(chunk)]
        sparse == Get(chunk, "sparse_embedding", None)
    IN  IF sparse = None THEN vector_data
        ELSE LET ints == [j \in 1..Len(sparse.indices) |-> IntOf(sparse.indices[j])]
                 floats == [j \in 1..Len(sparse.values) |-> FloatOf(sparse.values[j])]
             IN  IF \/ \E j \in 1..Len(ints) : ints[j].raised
                    \/ \E j \in 1..Len(floats) : floats[j].raised
                   THEN vector_data
                   ELSE Put(vector_data, "sparse_values",
                            [indices |-> [j \in 1..Len(ints) |-> ints[j].value],
                             values |-> [j \in 1..Len(floats) |-> floats[j].value]])

\* prepare_vectors_for_pinecone (lines 61-106)
prepare_vectors_for_pinecone(chunks) ==
    LET kept == SelectSeq(chunks, HasEmbedding)
    IN  [j \in 1..Len(kept) |-> PineconeVector(kept[j])]

RandomUuid(identifier) == [uuid4 |-> <<identifier, vec.run>>]

\* a variant that derives the identifier from the first part of the id only
TruncatedUuid(identifier) == [uuid5 |-> identifier[1]]

\* uuid5(NAMESPACE_DNS, identifier) as a string
generate_uuid(identifier) == [uuid5 |-> identifier]

\* lines 589-609
QdrantPoint(chunk) ==
    [id |-> generate_uuid(chunk.id), vector |-> chunk.embedding,
     payload |-> Put(Metadata(chunk), "original_id", chunk.id)]

\* prepare_points_for_qdrant (lines 581-614)
prepare_points_for_qdrant(chunks) ==
    LET kept == SelectSeq(chunks, HasEmbedding)
    IN  [j \in 1..Len(kept) |-> QdrantPoint(kept[j])]

\* the string "YYYY-MM-DDTHH:MM:SS" followed by a tail
Timestamp(date, time, tail) == [date |-> date, time |-> time, tail |-> tail]

\* "1970-01-01T00:00:00Z"
Epoch == Timestamp(<<1970, 1, 1>>, <<0, 0, 0>>, "Z")

\* lines 378-398: the default for what is not a string or is blank; a year
\* gets January the first; a year and a month are parsed with day 1; the
\* rest is parsed and written with isoformat, which puts the UTC offset of
\* a time that has one before the final Z; the default when parsing raises
normalize_date_to_rfc3339(date_str) ==
    CASE date_str.py /= "str" -> Epoch
      [] date_str.py = "str" /\ date_str.form \in {"empty", "blank"} -> Epoch
      [] date_str.py = "str" /\ date_str.form = "year" ->
           Timestamp(<<date_str.names[1], 1, 1>>, <<0, 0, 0>>, "Z")
      [] date_str.py = "str" /\ date_str.form = "year_month" ->
           IF date_str.names[2] \in 1..12
             THEN Timestamp(<<date_str.names[1], date_str.names[2], 1>>, <<0, 0, 0>>, "Z")
             ELSE Epoch
      [] date_str.py = "str" /\ date_str.form \in {"date", "datetime"} ->
           Timestamp(SubSeq(date_str.names, 1, 3), SubSeq(date_str.names, 4, 6), "Z")
      [] date_str.py = "str" /\ date_str.form = "aware" ->
           Timestamp(SubSeq(date_str.names, 1, 3), SubSeq(date_str.names, 4, 6), "+00:00Z")
      [] OTHER -> Epoch

\* lines 499-519
WeaviateObject(chunk) ==
    [uuid |-> generate_uuid(chunk.id), vector |-> chunk.embedding,
     properties |-> [Metadata(chunk) EXCEPT !.date = normalize_date_to_rfc3339(@)]]

\* lines 493-519: the objects of one batch
BatchDataObjects(current_batch_chunks) ==
    LET kept == SelectSeq(current_batch_chunks, HasEmbedding)
    IN  [j \in 1..Len(kept) |-> WeaviateObject(kept[j])]

IdleVec ==
    [pc |-> "start", chunks |-> <<>>, vectors |-> <<>>, points |-> <<>>,
     i |-> 0, batches |-> <<>>, total_inserted |-> 0]

InitVec ==
    /\ df = <<>>
    /\ store0 = Absent
    /\ store = Absent
    /\ SAVE_LOCK = 0
    /\ task = <<>>
    /\ appendLog = <<>>
    /\ emb = <<>>
    /\ ocr = <<>>
    /\ \E chunks \in VecInputs : vec = [IdleVec EXCEPT !.chunks = chunks]

\* insert_to_pinecone prepares its vectors (line 255)
PreparePinecone ==
    /\ vec.pc = "start"
    /\ vec' = [vec EXCEPT !.pc = "pinecone",
                          !.vectors = prepare_vectors_for_pinecone(vec.chunks)]
    /\ UNCHANGED <<chunkVars, emb, ocr>>

\* insert_to_qdrant prepares the points of the file
PrepareQdrant ==
    /\ vec.pc = "start"
    /\ vec' = [vec EXCEPT !.pc = "qdrant",
                          !.points = prepare_points_for_qdrant(vec.chunks)]
    /\ UNCHANGED <<chunkVars, emb, ocr>>

\* one turn of the batch loop of insert_to_weaviate_hybrid (lines 492-545):
\* the batch is built, and sent unless it is empty; insert_many raises, or
\* reports per-object errors
WeaviateBatch(raised, errors) ==
    LET batch_data_objects ==
            BatchDataObjects(Slice(vec.chunks, vec.i, WEAVIATE_BATCH_SIZE))
    IN  /\ vec.pc \in {"start", "weaviate"}
        /\ vec.i < Len(vec.chunks)
        /\ errors <= Len(batch_data_objects)
        /\ vec' = [vec EXCEPT
                     !.pc = "weaviate",
                     !.i = @ + WEAVIATE_BATCH_SIZE,
                     !.batches = Append(@, batch_data_objects),
                     !.total_inserted =
                        IF batch_data_objects = <<>> \/ raised THEN @
                        ELSE @ + Len(batch_data_objects) - errors]
        /\ UNCHANGED <<chunkVars, emb, ocr>>

\* the loop is over (lines 547-549)
WeaviateReturn ==
    /\ vec.pc \in {"start", "weaviate"}
    /\ vec.i >= Len(vec.chunks)
    /\ vec' = [vec EXCEPT !.pc = "weaviate_done"]
    /\ UNCHANGED <<chunkVars, emb, ocr>>

NextVec ==
    \/ PreparePinecone
    \/ PrepareQdrant
    \/ \E raised \in BOOLEAN, errors \in 0..1 : WeaviateBatch(raised, errors)
    \/ WeaviateReturn

SpecVec == InitVec /\ [][NextVec]_vars

----------------------------------------------------------------------------
(* Properties of the dense and sparse stages *)

SeqBag(seq) == [x \in {seq[j] : j \in 1..Len(seq)} |-> Count(seq, x)]

\* the chunks that have been through process_chunks_for_embedding
Embedded == emb.all_chunks_with_embeddings \o emb.embedded_doc_chunks

BatchOf(chunk) ==
    CHOOSE b \in 1..Len(emb.batches) :
        \E j \in 1..Len(emb.batches[b].ids) : emb.batches[b].ids[j] = chunk.id

BatchCount(n) == (n + DEFAULT_EMBEDDING_BATCH_SIZE - 1) \div DEFAULT_EMBEDDING_BATCH_SIZE

\* C9: a batch gets at most two embedding requests, the second only after
\* the first raised and after one pause; when both raise every chunk of the
\* batch has embedding None, the chunks of the other batches have their own
\* vectors, and every batch of the file is still processed.
C9_EmbeddingRetryThenNone ==
    /\ \A b \in 1..Len(emb.batches) :
          emb.batches[b].attempts \in {<<"ok">>, <<"err", "ok">>, <<"err", "err">>}
    /\ emb.attempts = (IF emb.pc = "retry" THEN <<"err">> ELSE <<>>)
    /\ emb.sleeps = Cardinality({b \in 1..Len(emb.batches) : Len(emb.batches[b].attempts) = 2})
                      + Len(emb.attempts)
    /\ \A j \in 1..Len(Embedded) :
          LET c == Embedded[j]
          IN  /\ "embedding" \in DOMAIN c
              /\ c.embedding = IF emb.batches[BatchOf(c)].attempts = <<"err", "err">>
                                 THEN None
                                 ELSE Embedding(Get(c, "text", EmptyText))
    /\ emb.dense_file.kind = "array" =>
          /\ Len(emb.batches) =
                SumSeq([g \in 1..Len(emb.chunks_by_doc) |->
                            BatchCount(Len(emb.chunks_by_doc[g].chunks))])
          /\ \A j \in 1..Len(emb.input.items) :
                \E b \in 1..Len(emb.batches) :
                    Count(emb.batches[b].ids, emb.input.items[j].id) = 1

C9_Witness ==
    /\ emb.pc = "done"
    /\ Len(emb.batches) = 2
    /\ emb.batches[1].attempts = <<"err", "err">>
    /\ emb.batches[2].attempts = <<"err", "ok">>
    /\ Len(emb.batches[1].ids) = DEFAULT_EMBEDDING_BATCH_SIZE
    /\ emb.dense_file.items[1].embedding = None
    /\ emb.dense_file.items[Len(emb.dense_file.items)].embedding /= None

\* the requests of the batch the chunk was embedded in ended with an answer
BatchSucceeded(chunk) ==
    LET attempts == emb.batches[BatchOf(chunk)].attempts
    IN  attempts[Len(attempts)] = "ok"

\* C34: once generate_and_save_embeddings has written its output, every
\* chunk of the output has an embedding field: the vector returned for the
\* text of that very chunk when the request of its batch succeeded, and None
\* when it did not.
C34_EveryChunkOwnVectorOrNone ==
    emb.dense_file.kind = "array" =>
        /\ Len(emb.dense_file.items) = Len(emb.input.items)
        /\ \A j \in 1..Len(emb.dense_file.items) :
              LET chunk == emb.dense_file.items[j]
              IN  /\ "embedding" \in DOMAIN chunk
                  /\ BatchSucceeded(chunk) =>
                        chunk.embedding = Embedding(Get(chunk, "text", EmptyText))
                  /\ ~BatchSucceeded(chunk) => chunk.embedding = None

\* a batch of chunks of different texts that was answered, after a batch of
\* another document that was not
C34_Witness ==
    /\ emb.dense_file.kind = "array"
    /\ Len(emb.dense_file.items) = 3
    /\ Len(emb.batches) = 2
    /\ emb.batches[1].attempts = <<"err", "err">>
    /\ emb.batches[2].attempts = <<"ok">>
    /\ Len(emb.batches[2].ids) = 2
    /\ \E i, j \in 1..3 :
          /\ i < j
          /\ emb.dense_file.items[i].embedding /= None
          /\ emb.dense_file.items[j].embedding /= None
          /\ emb.dense_file.items[i].embedding /= emb.dense_file.items[j].embedding
    /\ \E i \in 1..3 : emb.dense_file.items[i].embedding = None

\* C10: the output of the dense stage holds exactly the chunks of its input,
\* each with its fields unchanged and the embedding field added, chunks whose
\* embedding is None included; the output of the sparse stage holds exactly
\* the chunks of the dense output, each with sparse_embedding added.
C10_StagesKeepEveryChunk ==
    /\ emb.dense_file.kind = "array" =>
          /\ SeqBag([j \in 1..Len(emb.dense_file.items) |->
                        Without(emb.dense_file.items[j], "embedding")])
                = SeqBag(emb.input.items)
          /\ \A j \in 1..Len(emb.dense_file.items) :
                "embedding" \in DOMAIN emb.dense_file.items[j]
    /\ emb.sparse_file.kind = "array" =>
          /\ Len(emb.sparse_file.items) = Len(emb.dense_file.items)
          /\ \A j \in 1..Len(emb.sparse_file.items) :
                /\ Without(emb.sparse_file.items[j], "sparse_embedding")
                      = emb.dense_file.items[j]
                /\ "sparse_embedding" \in DOMAIN emb.sparse_file.items[j]

\* a file whose documents interleave, one of them left without embeddings
C10_Witness ==
    /\ emb.pc = "done"
    /\ Len(emb.input.items) = 3
    /\ emb.sparse_file.items[1].id = emb.input.items[1].id
    /\ emb.sparse_file.items[2].id = emb.input.items[3].id
    /\ emb.sparse_file.items[3].id = emb.input.items[2].id
    /\ emb.sparse_file.items[3].embedding = None
    /\ emb.sparse_file.items[1].embedding /= None

\* chunks of the sparse stage that were given their sparse_embedding
SparseDone ==
    CASE emb.pc = "sparse_loop" -> emb.i - 1
      [] emb.pc = "done" -> Len(emb.all_chunks)
      [] OTHER -> 0

\* C24: generate_sparse_embeddings gives every chunk a sparse_embedding: the
\* empty one when the text is empty or missing or when the extraction
\* raises, the extracted features otherwise; a chunk whose extraction raises
\* stops neither the chunks after it nor the writing of the output file.
C24_SparseForEveryChunk ==
    /\ \A j \in 1..SparseDone :
          LET chunk == emb.all_chunks[j]
          IN  /\ "sparse_embedding" \in DOMAIN chunk
              /\ chunk.sparse_embedding =
                    (IF "text" \notin DOMAIN chunk THEN [indices |-> <<>>, values |-> <<>>]
                     ELSE IF chunk.text = EmptyText \/ "unparsable" \in DOMAIN chunk.text
                       THEN [indices |-> <<>>, values |-> <<>>]
                     ELSE extract_sparse_features(chunk.text).features)
              /\ ("text" \in DOMAIN chunk /\ chunk.text /= EmptyText
                     /\ "unparsable" \notin DOMAIN chunk.text)
                  => chunk.sparse_embedding.indices /= <<>>
    /\ emb.pc \in {"sparse_loop", "done"} => Len(emb.all_chunks) = Len(emb.dense_file.items)
    /\ emb.pc = "done" => emb.sparse_file = JsonArray(emb.all_chunks)
    /\ emb.sparse_file.kind = "array" => emb.pc = "done"

\* a chunk whose extraction raises, then one without text, then an ordinary one
C24_Witness ==
    /\ emb.pc = "done"
    /\ Len(emb.sparse_file.items) = 3
    /\ "text" \in DOMAIN emb.sparse_file.items[1]
    /\ "unparsable" \in DOMAIN emb.sparse_file.items[1].text
    /\ emb.sparse_file.items[1].sparse_embedding = EmptySparse
    /\ "text" \notin DOMAIN emb.sparse_file.items[2]
    /\ emb.sparse_file.items[2].sparse_embedding = EmptySparse
    /\ emb.sparse_file.items[3].sparse_embedding.indices /= <<>>

----------------------------------------------------------------------------
(* Properties of the adapters *)

\* positions of the chunks whose embedding is present and not None
NonNull(chunks) ==
    {p \in 1..Len(chunks) : "embedding" \in DOMAIN chunks[p] /\ chunks[p].embedding /= None}

\* the k-th of these positions
Nth(positions, k) ==
    CHOOSE p \in positions : Cardinality({q \in positions : q <= p}) = k

\* the records stem, in order, from exactly the chunks that have an embedding
FromNonNull(records, chunks, IdOf(_), VectorOf(_)) ==
    /\ Len(records) = Cardinality(NonNull(chunks))
    /\ \A k \in 1..Len(records) :
          LET c == chunks[Nth(NonNull(chunks), k)]
          IN  /\ IdOf(records[k]) = c.id
              /\ VectorOf(records[k]) = c.embedding
              /\ VectorOf(records[k]) /= None

PineconeId(v) == v.id
PineconeValues(v) == v.values
QdrantId(p) == p.payload.original_id
WeaviateId(o) == o.uuid.uuid5
VectorField(r) == r.vector

\* C1: the vectors prepared for Pinecone, the points prepared for Qdrant and
\* the objects of every Weaviate batch come, in input order, from exactly the
\* chunks whose embedding is present and not None; their number is the number
\* of such chunks.
C1_OnlyEmbeddedChunksPrepared ==
    /\ vec.pc = "pinecone" =>
          FromNonNull(vec.vectors, vec.chunks, PineconeId, PineconeValues)
    /\ vec.pc = "qdrant" =>
          FromNonNull(vec.points, vec.chunks, QdrantId, VectorField)
    /\ \A b \in 1..Len(vec.batches) :
          FromNonNull(vec.batches[b],
                      Slice(vec.chunks, (b - 1) * WEAVIATE_BATCH_SIZE, WEAVIATE_BATCH_SIZE),
                      WeaviateId, VectorField)

C1_WitnessPinecone ==
    /\ vec.pc = "pinecone"
    /\ Len(vec.chunks) = 3
    /\ "embedding" \in DOMAIN vec.chunks[1] /\ vec.chunks[1].embedding = None
    /\ "embedding" \notin DOMAIN vec.chunks[2]
    /\ Len(vec.vectors) = 1
    /\ vec.vectors[1].id = vec.chunks[3].id

C1_WitnessQdrant ==
    /\ vec.pc = "qdrant"
    /\ Len(vec.chunks) = 3
    /\ "embedding" \in DOMAIN vec.chunks[2] /\ vec.chunks[2].embedding = None
    /\ Len(vec.points) = 2

C1_WitnessWeaviate ==
    /\ vec.pc = "weaviate_done"
    /\ Len(vec.batches) = 2
    /\ Len(vec.batches[1]) = WEAVIATE_BATCH_SIZE \div 2
    /\ Len(vec.batches[2]) = 1

C1_Witness ==
    /\ vec.pc = "weaviate_done"
    /\ Len(vec.chunks) = 3
    /\ "embedding" \in DOMAIN vec.chunks[1] /\ vec.chunks[1].embedding = None
    /\ "embedding" \notin DOMAIN vec.chunks[2]
    /\ Len(vec.batches) = 1
    /\ Len(vec.batches[1]) = 1

----------------------------------------------------------------------------
(* Ingestion (rad_dataframe.py): load_zotero_to_dataframe walks the         *)
(* attachments of the export and calls extract_text_with_ocr on each PDF    *)

MaxAttachments == 3

\* an attachment of the export: a PDF that exists, a PDF that is not found,
\* or a path that is not a PDF; two attachments per item
Attachment(j, kind) == [item |-> (j + 1) \div 2, filename |-> j, kind |-> kind]

Exports ==
    { [j \in DOMAIN f |-> Attachment(j, f[j])] :
        f \in UNION { [1..n -> {"pdf", "missing", "other"}] : n \in 0..MaxAttachments } }

\* what a provider request can do: return text, return nothing usable, fail
ProviderOutcomes == {"text", "empty", "error"}

\* the tiers of extract_text_with_ocr in program order (lines 328, 343, 365)
StraightToLegacy(tier) == IF tier = "legacy" THEN "raise" ELSE "legacy"

NextTier(tier) ==
    CASE tier = "mistral" -> "openai"
      [] tier = "openai" -> "legacy"
      [] OTHER -> "raise"

FirstTier == "mistral"

\* _extract_text_with_mistral and _extract_text_with_openai raise
\* OCRExtractionError on an empty response (lines 232-233, 306-307);
\* _extract_text_with_legacy_pdf returns "" on any failure (lines 135-137)
Yields(tier, outcome) == outcome = "text"

OcrText(attachment, tier) == [pdf |-> attachment.filename, by |-> tier]

IdleOcr ==
    [pc |-> "items", MISTRAL_API_KEY |-> FALSE, openai_key |-> FALSE,
     attachments |-> <<>>, a |-> 1, tier |-> "none", last_error |-> None,
     attempts |-> <<>>, log |-> <<>>, records |-> <<>>]

InitOcr ==
    /\ df = <<>>
    /\ store0 = Absent
    /\ store = Absent
    /\ SAVE_LOCK = 0
    /\ task = <<>>
    /\ appendLog = <<>>
    /\ emb = <<>>
    /\ vec = <<>>
    /\ \E export \in Exports, mk \in BOOLEAN, ok \in BOOLEAN :
          ocr = [IdleOcr EXCEPT !.attachments = export,
                                !.MISTRAL_API_KEY = mk, !.openai_key = ok]

AbortRun(o, result) ==
    [o EXCEPT !.pc = "items", !.a = Len(o.attachments) + 1, !.tier = "none",
              !.attempts = <<>>,
              !.log = Append(@, [a |-> o.a, attempts |-> o.attempts, result |-> result])]

\* `continue`: the loop goes on with the next attachment (lines 467, 481)
NextAttachment(o, result) ==
    [o EXCEPT !.pc = "items", !.a = @ + 1, !.tier = "none", !.attempts = <<>>,
              !.log = Append(@, [a |-> o.a, attempts |-> o.attempts, result |-> result])]

\* extract_text_with_ocr returned: the record is appended (lines 483-490)
AppendRecord(o, tier) ==
    LET att == o.attachments[o.a]
        done == [o EXCEPT !.records =
                    Append(@, [item |-> att.item, filename |-> att.filename,
                               texteocr |-> OcrText(att, tier),
                               texteocr_provider |-> tier])]
    IN  NextAttachment(done, tier)

\* lines 406-472: the next attachment is skipped, or handed to OCR
TakeAttachment ==
    /\ ocr.pc = "items"
    /\ ocr.a <= Len(ocr.attachments)
    /\ ocr' = IF ocr.attachments[ocr.a].kind = "pdf"
                THEN [ocr EXCEPT !.pc = "ocr", !.tier = FirstTier,
                                 !.last_error = None, !.attempts = <<>>]
                ELSE NextAttachment(ocr, "skipped")
    /\ UNCHANGED <<chunkVars, emb, vec>>

\* lines 328-358: a provider without its key is passed over
SkipProvider ==
    /\ ocr.pc = "ocr"
    /\ \/ ocr.tier = "mistral" /\ ~ocr.MISTRAL_API_KEY
       \/ ocr.tier = "openai" /\ ~ocr.openai_key
    /\ ocr' = [ocr EXCEPT !.tier = NextTier(@)]
    /\ UNCHANGED <<chunkVars, emb, vec>>

\* lines 329-340, 345-356: the provider is called; its text is returned, or
\* its failure is kept in last_error and the next tier follows
TryProvider(outcome) ==
    /\ ocr.pc = "ocr"
    /\ \/ ocr.tier = "mistral" /\ ocr.MISTRAL_API_KEY
       \/ ocr.tier = "openai" /\ ocr.openai_key
    /\ LET tried == [ocr EXCEPT !.attempts = Append(@, <<ocr.tier, outcome>>)]
       IN  ocr' = IF Yields(ocr.tier, outcome)
                    THEN AppendRecord(tried, ocr.tier)
                    ELSE [tried EXCEPT !.tier = NextTier(@), !.last_error = ocr.tier]
    /\ UNCHANGED <<chunkVars, emb, vec>>

\* lines 365-373 and 473-481: the local extraction; without text
\* OCRExtractionError is raised and the caller drops the attachment
TryLegacy(outcome) ==
    /\ ocr.pc = "ocr"
    /\ ocr.tier = "legacy"
    /\ outcome \in {"text", "empty"}
    /\ LET tried == [ocr EXCEPT !.attempts = Append(@, <<"legacy", outcome>>)]
       IN  ocr' = IF Yields("legacy", outcome)
                    THEN AppendRecord(tried, "legacy")
                    ELSE NextAttachment(tried, "OCRExtractionError")
    /\ UNCHANGED <<chunkVars, emb, vec>>

\* return pd.DataFrame(records) (line 496)
ReturnDataFrame ==
    /\ ocr.pc = "items"
    /\ ocr.a > Len(ocr.attachments)
    /\ ocr' = [ocr EXCEPT !.pc = "done"]
    /\ UNCHANGED <<chunkVars, emb, vec>>

NextOcr ==
    \/ TakeAttachment
    \/ SkipProvider
    \/ \E outcome \in ProviderOutcomes : TryProvider(outcome)
    \/ \E outcome \in ProviderOutcomes : TryLegacy(outcome)
    \/ ReturnDataFrame

SpecOcr == InitOcr /\ [][NextOcr]_vars

----------------------------------------------------------------------------
(* Properties of the ingestion *)

TierRank(tier) == CASE tier = "mistral" -> 1 [] tier = "openai" -> 2 [] OTHER -> 3

HasKey(tier) ==
    CASE tier = "mistral" -> ocr.MISTRAL_API_KEY
      [] tier = "openai" -> ocr.openai_key
      [] OTHER -> TRUE

Attempted(attempts, tier) == \E k \in 1..Len(attempts) : attempts[k][1] = tier

\* the attempts of one call follow the order of the tiers, a tier is tried
\* only when each earlier one had no key or was tried without giving text,
\* and nothing is tried after a tier gave text
InTierOrder(attempts) ==
    /\ \A k \in 1..Len(attempts) - 1 :
          /\ TierRank(attempts[k][1]) < TierRank(attempts[k + 1][1])
          /\ attempts[k][2] /= "text"
    /\ \A k \in 1..Len(attempts) :
          \A earlier \in {"mistral", "openai"} :
              TierRank(earlier) < TierRank(attempts[k][1]) =>
                  IF HasKey(earlier)
                    THEN \E j \in 1..(k - 1) :
                            attempts[j][1] = earlier /\ attempts[j][2] /= "text"
                    ELSE ~Attempted(attempts, earlier)

RecordOf(a) ==
    CHOOSE r \in {ocr.records[k] : k \in 1..Len(ocr.records)} :
        r.filename = ocr.attachments[a].filename

\* C12: extract_text_with_ocr tries Mistral, then OpenAI, then the local
\* extraction; a tier is tried only if every earlier tier lacked its key or
\* failed; the first tier that gives text ends the call, and its text and
\* its name are what the call returns.
C12_ProvidersInFixedOrder ==
    /\ InTierOrder(ocr.attempts)
    /\ \A k \in 1..Len(ocr.attempts) : ocr.attempts[k][2] /= "text"
    /\ \A e \in 1..Len(ocr.log) :
          LET entry == ocr.log[e]
          IN  /\ InTierOrder(entry.attempts)
              /\ entry.result \in {"mistral", "openai", "legacy"} <=>
                    (entry.attempts /= <<>>
                       /\ entry.attempts[Len(entry.attempts)][2] = "text")
              /\ entry.result \in {"mistral", "openai", "legacy"} =>
                    /\ entry.attempts[Len(entry.attempts)][1] = entry.result
                    /\ RecordOf(entry.a).texteocr_provider = entry.result
                    /\ RecordOf(entry.a).texteocr
                          = OcrText(ocr.attachments[entry.a], entry.result)

C12_Witness ==
    /\ Len(ocr.log) = 2
    /\ ocr.log[1].attempts = <<<<"mistral", "empty">>, <<"openai", "text">>>>
    /\ ocr.log[1].result = "openai"
    /\ ocr.log[2].attempts = <<<<"mistral", "text">>>>
    /\ ocr.records[2].texteocr_provider = "mistral"

\* positions of the attachments whose extraction gave text, in order
Emitted == SelectSeq(ocr.log, LAMBDA entry : entry.result \in {"mistral", "openai", "legacy"})

\* C13: OCRExtractionError is raised exactly when no tier gave text: each of
\* Mistral and OpenAI had no key or failed, and the local extraction was
\* empty; the export loop then leaves out that attachment alone, and every
\* attachment of the export is still taken in turn and the others emitted.
C13_FailureDropsOneAttachment ==
    /\ \A e \in 1..Len(ocr.log) :
          LET entry == ocr.log[e]
          IN  /\ entry.a = e
              /\ entry.result = "skipped" <=> ocr.attachments[e].kind /= "pdf"
              /\ entry.result = "OCRExtractionError" <=>
                    /\ ocr.attachments[e].kind = "pdf"
                    /\ \A k \in 1..Len(entry.attempts) : entry.attempts[k][2] /= "text"
              /\ entry.result = "OCRExtractionError" =>
                    /\ Attempted(entry.attempts, "legacy")
                    /\ \A tier \in {"mistral", "openai"} :
                          HasKey(tier) <=> Attempted(entry.attempts, tier)
    /\ Len(ocr.records) = Len(Emitted)
    /\ \A k \in 1..Len(ocr.records) :
          ocr.records[k].filename = ocr.attachments[Emitted[k].a].filename
    /\ ocr.pc = "done" => Len(ocr.log) = Len(ocr.attachments)

C13_Witness ==
    /\ ocr.pc = "done"
    /\ Len(ocr.attachments) = 3
    /\ ocr.log[1].result = "mistral"
    /\ ocr.log[2].result = "OCRExtractionError"
    /\ ocr.log[2].attempts = <<<<"mistral", "error">>, <<"openai", "empty">>, <<"legacy", "empty">>>>
    /\ ocr.log[3].result = "legacy"
    /\ Len(ocr.records) = 2

----------------------------------------------------------------------------
(* Insertion runs of the adapters (rad_vectordb.py): insert_to_pinecone,    *)
(* insert_to_qdrant and insert_to_weaviate_hybrid on one chunks file, run   *)
(* up to MaxRuns times against the same collection                          *)

MaxInsChunks == 3     \* chunks of a small chunks file
MaxRuns == 2          \* insertions of the same file

PINECONE_BATCH_SIZE == 100
QDRANT_BATCH_SIZE == 100

\* a chunk of document doc, with or without its embedding
InsChunk(doc, pos, e) ==
    [VecChunk(pos, e, "absent") EXCEPT !.id = <<doc, pos>>, !.doc_id = doc]

\* chunks files: missing, unreadable, small files over two documents, and
\* one document one chunk longer than a batch, whole or with a tail or a
\* head that has no embedding
InsertFiles ==
    {Absent, BadJson, BadUtf8} \cup
    { JsonArray([j \in DOMAIN f |-> InsChunk(f[j][1], j, f[j][2])]) :
        f \in UNION { [1..n -> {1, 2} \X {"null", "list"}] : n \in 0..MaxInsChunks } } \cup
    { JsonArray([j \in 1..(PINECONE_BATCH_SIZE + 1) |->
          InsChunk(1, j, CASE p = "tail" -> (IF j > PINECONE_BATCH_SIZE THEN "null" ELSE "list")
                           [] p = "head" -> (IF j <= PINECONE_BATCH_SIZE THEN "null" ELSE "list")
                           [] OTHER -> "list")]) :
        p \in {"all", "tail", "head"} }

\* len(chunk["embedding"]) (line 727)
Dimension(embedding) == 2 + (embedding.of.seg % 2)

\* the key under which a store keeps a record: the vector id for Pinecone,
\* the point id or object uuid for Qdrant and Weaviate
RecordKey(r) == IF "uuid" \in DOMAIN r THEN r.uuid ELSE r.id

\* the store after an upsert: a record whose key is already stored replaces
\* the stored one, any other record is added; of the records of one call
\* with the same key the last one stays
UpsertAll(collection, records) ==
    LET Last(key) == CHOOSE j \in 1..Len(records) :
                        /\ RecordKey(records[j]) = key
                        /\ \A k \in (j + 1)..Len(records) : RecordKey(records[k]) /= key
        stored == {RecordKey(collection[k]) : k \in 1..Len(collection)}
        sent == {RecordKey(records[j]) : j \in 1..Len(records)}
        added == SelectSeq([j \in 1..Len(records) |-> [j |-> j, r |-> records[j]]],
                           LAMBDA x : RecordKey(x.r) \notin stored
                                        /\ Last(RecordKey(x.r)) = x.j)
    IN  [k \in 1..Len(collection) |->
            IF RecordKey(collection[k]) \in sent
              THEN records[Last(RecordKey(collection[k]))]
              ELSE collection[k]]
        \o [j \in 1..Len(added) |-> added[j].r]

IdleIns ==
    [adapter |-> "none", pc |-> "start", file |-> Absent, run |-> 1,
     exists |-> FALSE, collection |-> <<>>, after_first |-> <<>>, full |-> 0,
     setup |-> "none", lookup |-> "none",
     all_chunks |-> <<>>, chunks_by_doc |-> <<>>, doc |-> 1, i |-> 0,
     total_inserted_count |-> 0, total_processed_chunks |-> 0,
     any_batch_failed |-> FALSE, attempts |-> <<>>, sleeps |-> 0,
     batches |-> <<>>, created |-> <<>>, result |-> None]

InitInsert ==
    /\ df = <<>>
    /\ store0 = Absent
    /\ store = Absent
    /\ SAVE_LOCK = 0
    /\ task = <<>>
    /\ appendLog = <<>>
    /\ emb = <<>>
    /\ ocr = <<>>
    /\ \E f \in InsertFiles, exists \in BOOLEAN :
          vec = [IdleIns EXCEPT !.file = f, !.exists = exists]

\* the function returns; full counts the runs that went through the whole
\* file with every batch inserted
Return(v, result) ==
    [v EXCEPT !.pc = "returned", !.result = result,
              !.after_first = IF v.run = 1 THEN v.collection ELSE @,
              !.full = IF /\ v.pc \in {"pinecone_loop", "qdrant_loop", "weaviate_loop"}
                          /\ \A b \in 1..Len(v.batches) :
                                v.batches[b].inserted = Len(v.batches[b].records)
                         THEN @ + 1 ELSE @]

PineconeResult(status, message, inserted_count) ==
    [status |-> status, message |-> message, inserted_count |-> inserted_count]

\* the doc_chunks of the running loop and its batch (lines 265-269)
DocChunks(v) == v.chunks_by_doc[v.doc].chunks
BatchChunks(v) ==
    IF v.adapter = "pinecone" THEN Slice(DocChunks(v), v.i, PINECONE_BATCH_SIZE)
    ELSE Slice(v.all_chunks, v.i, QDRANT_BATCH_SIZE)

\* the outcome of a batch is noted
Logged(v, attempts, records, inserted) ==
    [v EXCEPT !.batches = Append(@, [chunks |-> BatchChunks(v), records |-> records,
                                      attempts |-> attempts, inserted |-> inserted]),
              !.attempts = <<>>]

\* the loops move on: the next batch, for Pinecone the next document after
\* the last batch of one (lines 265-268, 492, 766)
Advance(v) ==
    IF v.adapter = "pinecone"
      THEN IF v.i + PINECONE_BATCH_SIZE < Len(DocChunks(v))
             THEN [v EXCEPT !.i = @ + PINECONE_BATCH_SIZE]
             ELSE [v EXCEPT !.doc = @ + 1, !.i = 0]
      ELSE [v EXCEPT !.i = @ + QDRANT_BATCH_SIZE]

StopAfterFailure(v, attempts, records, inserted) ==
    LET logged == Logged([v EXCEPT !.total_inserted_count = @ + inserted],
                         attempts, records, inserted)
    IN  IF inserted = Len(records) THEN Advance(logged)
        ELSE [logged EXCEPT !.doc = Len(v.chunks_by_doc) + 1, !.i = Len(v.all_chunks)]

\* a batch is over, inserted or not: the count grows by what was inserted
\* and the loop goes on (lines 273-282, 521-545, 771-779)
BatchEnds(v, attempts, records, inserted) ==
    Advance(Logged([v EXCEPT !.total_inserted_count = @ + inserted],
                   attempts, records, inserted))

RetryWithoutSleep(v, pc, attempt) == [v EXCEPT !.pc = pc, !.attempts = <<attempt>>]

\* the first upsert raised: a pause, then the second attempt (lines 39-43,
\* 643-647)
SleepThenRetry(v, pc, attempt) ==
    [v EXCEPT !.pc = pc, !.attempts = <<attempt>>, !.sleeps = @ + 1]

\* whether the loop has a batch left
MoreBatches(v) ==
    IF v.adapter = "pinecone" THEN v.doc <= Len(v.chunks_by_doc)
    ELSE v.i < Len(v.all_chunks)

\* a run starts with fresh locals; the file and the store stay
Fresh(v, adapter) ==
    [IdleIns EXCEPT !.adapter = adapter, !.file = v.file, !.run = v.run,
                    !.exists = v.exists, !.collection = v.collection,
                    !.after_first = v.after_first, !.full = v.full]

\* what can go wrong before insert_to_pinecone reads the file, in program
\* order: no API key (141), the client (146-152), list_indexes (155-167),
\* the shape of its answer (169-221), the index not listed (223-226),
\* pc.Index (229-236)
PineconeFailures ==
    {"none", "no_api_key", "client", "list_indexes", "index_names", "not_listed", "index"}

IgnoreUnreadableFile(file, failure) ==
    CASE file.kind = "absent" -> "missing_file"
      [] failure /= "none" -> failure
      [] OTHER -> "none"

\* the first early return of insert_to_pinecone (lines 136-252), "none" when
\* the file is loaded
SetupError(file, failure) ==
    CASE file.kind = "absent" -> "missing_file"
      [] failure /= "none" -> failure
      [] file.kind /= "array" -> "load"
      [] OTHER -> "none"

NeverError(any_batch_failed, inserted, processed, loaded) ==
    CASE any_batch_failed -> <<"partial_error", "batch_failed">>
      [] inserted < processed -> <<"success_partial_data", "invalid_chunks">>
      [] OTHER -> <<"success", "done">>

ErrorBeforePartial(any_batch_failed, inserted, processed, loaded) ==
    CASE inserted = 0 /\ loaded > 0 -> <<"error", "nothing_inserted">>
      [] any_batch_failed -> <<"partial_error", "batch_failed">>
      [] inserted < processed -> <<"success_partial_data", "invalid_chunks">>
      [] OTHER -> <<"success", "done">>

\* the status and the closing sentence of the message (lines 293-300)
FinalStatus(any_batch_failed, inserted, processed, loaded) ==
    CASE any_batch_failed -> <<"partial_error", "batch_failed">>
      [] inserted = 0 /\ loaded > 0 -> <<"error", "nothing_inserted">>
      [] inserted < processed /\ ~any_batch_failed ->
           <<"success_partial_data", "invalid_chunks">>
      [] OTHER -> <<"success", "done">>

\* insert_to_pinecone up to the loading of the file (lines 136-263)
PineconeStart(failure) ==
    LET v == [Fresh(vec, "pinecone") EXCEPT !.setup = failure]
        error == SetupError(v.file, failure)
    IN  /\ vec.pc = "start"
        /\ vec.adapter \in {"none", "pinecone"}
        /\ vec' = IF error /= "none"
                    THEN Return(v, PineconeResult("error", error, 0))
                    ELSE [v EXCEPT !.pc = "pinecone_loop",
                                   !.all_chunks = v.file.items,
                                   !.chunks_by_doc = GroupByDoc(v.file.items, <<>>)]
        /\ UNCHANGED <<chunkVars, emb, ocr>>

\* one batch of insert_to_pinecone (lines 268-282) with the first attempt of
\* upsert_batch_to_pinecone (lines 36-42)
PineconeBatch(ok) ==
    LET vectors_to_upsert == prepare_vectors_for_pinecone(BatchChunks(vec))
        v == [vec EXCEPT !.total_processed_chunks = @ + Len(BatchChunks(vec))]
    IN  /\ vec.pc = "pinecone_loop"
        /\ MoreBatches(vec)
        /\ vec' = CASE vectors_to_upsert = <<>> -> BatchEnds(v, <<>>, <<>>, 0)
                    [] vectors_to_upsert /= <<>> /\ ok ->
                         BatchEnds([v EXCEPT !.collection = UpsertAll(@, vectors_to_upsert)],
                                   <<"ok">>, vectors_to_upsert, Len(vectors_to_upsert))
                    [] OTHER -> SleepThenRetry(v, "pinecone_retry", "err")
        /\ UNCHANGED <<chunkVars, emb, ocr>>

\* the second attempt of upsert_batch_to_pinecone (lines 43-49) and what
\* insert_to_pinecone does with its answer (lines 275-280)
PineconeRetry(ok) ==
    LET vectors_to_upsert == prepare_vectors_for_pinecone(BatchChunks(vec))
        v == [vec EXCEPT !.pc = "pinecone_loop"]
    IN  /\ vec.pc = "pinecone_retry"
        /\ vec' = IF ok
                    THEN BatchEnds([v EXCEPT !.collection = UpsertAll(@, vectors_to_upsert)],
                                   <<"err", "ok">>, vectors_to_upsert, Len(vectors_to_upsert))
                    ELSE BatchEnds([v EXCEPT !.any_batch_failed = TRUE],
                                   <<"err", "err">>, vectors_to_upsert, 0)
        /\ UNCHANGED <<chunkVars, emb, ocr>>

\* the end of insert_to_pinecone (lines 284-300)
PineconeReturn ==
    LET final == FinalStatus(vec.any_batch_failed, vec.total_inserted_count,
                             vec.total_processed_chunks, Len(vec.all_chunks))
    IN  /\ vec.pc = "pinecone_loop"
        /\ ~MoreBatches(vec)
        /\ vec' = Return(vec, PineconeResult(final[1], final[2], vec.total_inserted_count))
        /\ UNCHANGED <<chunkVars, emb, ocr>>

Returned(n) == [returned |-> n]
Raised(exception) == [raised |-> exception]

LastEmbedding(chunks) ==
    LET at == {j \in 1..Len(chunks) : HasEmbedding(chunks[j])}
    IN  IF at = {} THEN None
        ELSE chunks[CHOOSE j \in at : \A k \in at : k <= j].embedding

\* the embedding of the first chunk that has one (lines 725-728)
FirstEmbedding(chunks) ==
    LET at == {j \in 1..Len(chunks) : HasEmbedding(chunks[j])}
    IN  IF at = {} THEN None
        ELSE chunks[CHOOSE j \in at : \A k \in at : j <= k].embedding

\* insert_to_qdrant up to the connection (lines 680-703)
QdrantStart(qdrant_url, connected) ==
    LET v == [Fresh(vec, "qdrant") EXCEPT
                 !.setup = IF ~qdrant_url THEN "no_url"
                           ELSE IF ~connected THEN "connect" ELSE "none"]
    IN  /\ vec.pc = "start"
        /\ vec.adapter \in {"none", "qdrant"}
        /\ vec' = CASE v.file.kind = "absent" -> Return(v, Returned(0))
                    [] v.file.kind /= "absent" /\ ~qdrant_url -> Return(v, Raised("ValueError"))
                    [] v.file.kind /= "absent" /\ qdrant_url /\ ~connected ->
                         Return(v, Returned(0))
                    [] OTHER -> [v EXCEPT !.pc = "qdrant_collection"]
        /\ UNCHANGED <<chunkVars, emb, ocr>>

\* the collection is looked up and, when that fails, created with the size
\* of the first embedding of the file (lines 705-747); then the file is
\* loaded (lines 749-763). Creating a collection that exists fails.
QdrantCollection(lookup_ok, create_ok) ==
    LET found == vec.exists /\ lookup_ok
        first == FirstEmbedding(vec.file.items)
        vector_size == IF first = None THEN 0 ELSE Dimension(first)
        call == [size |-> vector_size, distance |-> "Cosine", before |-> Len(vec.batches),
                 ok |-> create_ok /\ ~vec.exists]
        v == [vec EXCEPT !.lookup = IF found THEN "found" ELSE "failed"]
        loaded == [v EXCEPT !.pc = "qdrant_loop", !.all_chunks = vec.file.items]
    IN  /\ vec.pc = "qdrant_collection"
        /\ vec' = CASE vec.file.kind /= "array" -> Return(v, Returned(0))
                    [] vec.file.kind = "array" /\ found -> loaded
                    [] vec.file.kind = "array" /\ ~found /\ first = None ->
                         Return(v, Returned(0))
                    [] vec.file.kind = "array" /\ ~found /\ first /= None /\ call.ok ->
                         [loaded EXCEPT !.created = Append(@, call), !.exists = TRUE]
                    [] OTHER -> Return([v EXCEPT !.created = Append(@, call)], Returned(0))
        /\ UNCHANGED <<chunkVars, emb, ocr>>

\* one batch of insert_to_qdrant (lines 766-779) with the first attempt of
\* upsert_batch_to_qdrant (lines 634-646): the upsert completes, returns
\* another status, or raises
QdrantBatch(outcome) ==
    LET points_to_upsert == prepare_points_for_qdrant(BatchChunks(vec))
        v == [vec EXCEPT !.total_processed_chunks = @ + Len(BatchChunks(vec))]
    IN  /\ vec.pc = "qdrant_loop"
        /\ MoreBatches(vec)
        /\ vec' = CASE points_to_upsert = <<>> -> BatchEnds(v, <<>>, <<>>, 0)
                    [] points_to_upsert /= <<>> /\ outcome = "completed" ->
                         BatchEnds([v EXCEPT !.collection = UpsertAll(@, points_to_upsert)],
                                   <<"completed">>, points_to_upsert, Len(points_to_upsert))
                    [] points_to_upsert /= <<>> /\ outcome = "other" ->
                         BatchEnds(v, <<"other">>, points_to_upsert, 0)
                    [] OTHER -> SleepThenRetry(v, "qdrant_retry", "raise")
        /\ UNCHANGED <<chunkVars, emb, ocr>>

\* the second attempt of upsert_batch_to_qdrant (lines 647-657)
QdrantRetry(outcome) ==
    LET points_to_upsert == prepare_points_for_qdrant(BatchChunks(vec))
        v == [vec EXCEPT !.pc = "qdrant_loop"]
    IN  /\ vec.pc = "qdrant_retry"
        /\ vec' = IF outcome = "completed"
                    THEN BatchEnds([v EXCEPT !.collection = UpsertAll(@, points_to_upsert)],
                                   <<"raise", "completed">>, points_to_upsert,
                                   Len(points_to_upsert))
                    ELSE BatchEnds(v, <<"raise", outcome>>, points_to_upsert, 0)
        /\ UNCHANGED <<chunkVars, emb, ocr>>

\* the end of insert_to_qdrant (lines 781-786)
QdrantReturn ==
    /\ vec.pc = "qdrant_loop"
    /\ ~MoreBatches(vec)
    /\ vec' = Return(vec, Returned(vec.total_inserted_count))
    /\ UNCHANGED <<chunkVars, emb, ocr>>

\* what can go wrong before insert_to_weaviate_hybrid looks at the tenants,
\* in program order: no url or key (428-431), the connection (435-443)
WeaviateFailures == {"none", "no_url", "no_api_key", "connect", "not_ready"}

\* collection.tenants.get() (line 451): the listing holds the tenant exactly
\* when it exists, unless the call raises
TenantListings(exists) == {IF exists THEN "listed" ELSE "not_listed", "raised"}

CreateListedTenant(listing, create_ok, fallback_ok) ==
    CASE listing = "raised" -> <<[ok |-> fallback_ok]>>
      [] create_ok -> <<[ok |-> TRUE]>>
      [] OTHER -> <<[ok |-> FALSE], [ok |-> fallback_ok]>>

\* the calls of collection.tenants.create (lines 459-473): none when the
\* tenant is listed, one when it is not, and one more, the fallback, when
\* the listing or the first creation raised
TenantCreations(listing, create_ok, fallback_ok) ==
    CASE listing = "listed" -> <<>>
      [] listing = "raised" -> <<[ok |-> fallback_ok]>>
      [] listing = "not_listed" /\ create_ok -> <<[ok |-> TRUE]>>
      [] OTHER -> <<[ok |-> FALSE], [ok |-> fallback_ok]>>

\* insert_to_weaviate_hybrid up to the loading of the file (lines 422-490)
WeaviateStart(failure, listing, create_ok, fallback_ok) ==
    LET creations == TenantCreations(listing, create_ok, fallback_ok)
        resolved == listing = "listed"
                      \/ (creations /= <<>> /\ creations[Len(creations)].ok)
        connected == vec.file.kind /= "absent" /\ failure = "none"
        v == [Fresh(vec, "weaviate") EXCEPT
                 !.setup = IF connected /\ ~resolved THEN "tenant" ELSE failure,
                 !.lookup = IF connected THEN listing ELSE "none",
                 !.created = IF connected THEN creations ELSE <<>>,
                 !.exists = IF connected /\ resolved THEN TRUE ELSE @]
    IN  /\ vec.pc = "start"
        /\ vec.adapter \in {"none", "weaviate"}
        /\ listing \in TenantListings(vec.exists)
        /\ vec' = CASE v.file.kind = "absent" -> Return(v, Returned(0))
                    [] v.file.kind /= "absent" /\ failure \in {"no_url", "no_api_key"} ->
                         Return(v, Raised("ValueError"))
                    [] v.file.kind /= "absent" /\ failure \in {"connect", "not_ready"} ->
                         Return(v, Returned(0))
                    [] connected /\ ~resolved -> Return(v, Returned(0))
                    [] connected /\ resolved /\ v.file.kind /= "array" ->
                         Return(v, Returned(0))
                    [] OTHER -> [v EXCEPT !.pc = "weaviate_loop", !.all_chunks = v.file.items]
        /\ UNCHANGED <<chunkVars, emb, ocr>>

AllOrNothing(sent, errors) == IF errors = 0 THEN sent ELSE 0

\* num_successful_in_batch (lines 525-536)
num_successful_in_batch(sent, errors) == sent - errors

\* one batch of insert_to_weaviate_hybrid (lines 492-545): insert_many
\* raises, or answers with per-object errors for the first objects of the
\* batch; an object whose uuid is stored replaces the stored one
WeaviateInsert(raised, errors) ==
    LET batch_data_objects == BatchDataObjects(BatchChunks(vec))
        accepted == SubSeq(batch_data_objects, errors + 1, Len(batch_data_objects))
    IN  /\ vec.pc = "weaviate_loop"
        /\ MoreBatches(vec)
        /\ errors <= Len(batch_data_objects)
        /\ vec' = CASE batch_data_objects = <<>> -> BatchEnds(vec, <<>>, <<>>, 0)
                    [] batch_data_objects /= <<>> /\ raised ->
                         BatchEnds(vec, <<"raise">>, batch_data_objects, 0)
                    [] OTHER ->
                         BatchEnds([vec EXCEPT !.collection = UpsertAll(@, accepted)],
                                   <<IF errors = 0 THEN "ok" ELSE "errors">>,
                                   batch_data_objects,
                                   num_successful_in_batch(Len(batch_data_objects), errors))
        /\ UNCHANGED <<chunkVars, emb, ocr>>

\* the end of insert_to_weaviate_hybrid (lines 547-549)
WeaviateFinish ==
    /\ vec.pc = "weaviate_loop"
    /\ ~MoreBatches(vec)
    /\ vec' = Return(vec, Returned(vec.total_inserted_count))
    /\ UNCHANGED <<chunkVars, emb, ocr>>

\* the same file is inserted again
RunAgain ==
    /\ vec.pc = "returned"
    /\ vec.run < MaxRuns
    /\ vec' = [vec EXCEPT !.pc = "start", !.run = @ + 1]
    /\ UNCHANGED <<chunkVars, emb, ocr>>

NextInsert ==
    \/ \E failure \in PineconeFailures : PineconeStart(failure)
    \/ \E ok \in BOOLEAN : PineconeBatch(ok)
    \/ \E ok \in BOOLEAN : PineconeRetry(ok)
    \/ PineconeReturn
    \/ \E qdrant_url \in BOOLEAN, connected \in BOOLEAN : QdrantStart(qdrant_url, connected)
    \/ \E lookup_ok \in BOOLEAN, create_ok \in BOOLEAN : QdrantCollection(lookup_ok, create_ok)
    \/ \E outcome \in {"completed", "other", "raise"} : QdrantBatch(outcome)
    \/ \E outcome \in {"completed", "other", "raise"} : QdrantRetry(outcome)
    \/ QdrantReturn
    \/ \E failure \in WeaviateFailures, listing \in {"listed", "not_listed", "raised"},
          create_ok \in BOOLEAN, fallback_ok \in BOOLEAN :
             WeaviateStart(failure, listing, create_ok, fallback_ok)
    \/ \E raised \in BOOLEAN, errors \in 0..1 : WeaviateInsert(raised, errors)
    \/ WeaviateFinish
    \/ RunAgain

SpecInsert == InitInsert /\ [][NextInsert]_vars

----------------------------------------------------------------------------
(* Properties of the insertion runs *)

PineconeReturned == vec.adapter = "pinecone" /\ vec.pc = "returned"

\* the run read its file and went through the batch loop
Loaded == vec.file.kind = "array" /\ vec.setup = "none"

\* vectors of the batches whose upsert succeeded
SumInserted ==
    SumSeq([b \in 1..Len(vec.batches) |->
               IF vec.batches[b].inserted = Len(vec.batches[b].records)
                 THEN Len(vec.batches[b].records) ELSE 0])

\* insert_to_qdrant has returned or raised
QdrantEnded == vec.adapter = "qdrant" /\ vec.pc = "returned"

\* the file, the URL, the connection, the collection or the loading failed
QdrantSetupFailed ==
    \/ vec.file.kind /= "array"
    \/ vec.setup /= "none"
    \/ /\ vec.lookup = "failed"
       /\ (vec.created = <<>> \/ ~vec.created[Len(vec.created)].ok)

\* C33 as stated: insert_to_qdrant returns 0, and does not raise, when the
\* chunks file does not exist, when the URL is missing, and when the
\* connection, the setup of the collection or the loading of the file fails.
C33_QdrantFailuresReturnZero ==
    (QdrantEnded /\ QdrantSetupFailed) =>
        /\ vec.result = Returned(0)
        /\ vec.batches = <<>>

\* what holds: the same except for a missing URL with a file that exists,
\* where ValueError is raised
C33_QdrantFailuresReturnZeroOrRaise ==
    (QdrantEnded /\ QdrantSetupFailed) =>
        /\ vec.batches = <<>>
        /\ vec.result =
              (IF vec.file.kind /= "absent" /\ vec.setup = "no_url"
                 THEN Raised("ValueError") ELSE Returned(0))

C33_MissingUrlRaises ==
    /\ QdrantEnded
    /\ vec.run = 1
    /\ vec.file.kind = "array"
    /\ vec.setup = "no_url"
    /\ vec.result = Raised("ValueError")
    /\ vec.collection = <<>>

\* C14: when the chunks file is missing or is not valid JSON, or the API
\* key, the client, the index listing, the listed index or the index handle
\* is missing or fails, insert_to_pinecone returns status "error" with
\* inserted_count 0, and no upsert was attempted.
C14_SetupFailuresReturnError ==
    (PineconeReturned /\ ~Loaded) =>
        /\ vec.result.status = "error"
        /\ vec.result.inserted_count = 0
        /\ vec.batches = <<>>
        /\ vec.sleeps = 0
        /\ vec.run = 1 => vec.collection = <<>>

C14_Witness ==
    /\ PineconeReturned
    /\ vec.file = BadJson
    /\ vec.setup = "none"
    /\ vec.result.status = "error"
    /\ vec.run = 2
    /\ vec.collection = vec.after_first

\* C15 as stated: a loaded, non-empty file and nothing inserted give "error"
C15_NothingInsertedIsError ==
    (PineconeReturned /\ Loaded /\ Len(vec.all_chunks) > 0
        /\ vec.result.inserted_count = 0)
    => vec.result.status = "error"

\* C15: when insert_to_pinecone loads a non-empty file and nothing is
\* inserted, the status is "error" if no batch upsert failed (no chunk had an
\* embedding) and "partial_error" if a batch upsert failed.
C15_NothingInsertedStatus ==
    (PineconeReturned /\ Loaded /\ Len(vec.all_chunks) > 0
        /\ vec.result.inserted_count = 0)
    => vec.result.status =
          IF \E b \in 1..Len(vec.batches) : vec.batches[b].attempts = <<"err", "err">>
            THEN "partial_error" ELSE "error"

C15_Witness ==
    /\ PineconeReturned /\ Loaded
    /\ Len(vec.all_chunks) = 2
    /\ vec.result.inserted_count = 0
    /\ vec.result.status = "error"
    /\ Len(vec.batches) = 2

\* C16: when a batch upsert failed after its retry, insert_to_pinecone
\* returns "partial_error", its message says that a batch could not be
\* inserted, and inserted_count is the number of vectors of the batches that
\* were upserted.
C16_FailedBatchIsPartialError ==
    (PineconeReturned /\ Loaded
        /\ \E b \in 1..Len(vec.batches) : vec.batches[b].attempts = <<"err", "err">>)
    => /\ vec.result.status = "partial_error"
       /\ vec.result.message = "batch_failed"
       /\ vec.result.inserted_count = SumInserted

C16_Witness ==
    /\ PineconeReturned /\ Loaded
    /\ Len(vec.batches) = 2
    /\ vec.batches[1].attempts = <<"err", "err">>
    /\ vec.batches[2].attempts = <<"ok">>
    /\ vec.result.status = "partial_error"
    /\ vec.result.inserted_count = 1

C16_WitnessNone ==
    /\ PineconeReturned /\ Loaded
    /\ Len(vec.batches) = 1
    /\ vec.batches[1].attempts = <<"err", "err">>
    /\ vec.result.inserted_count = 0

\* C18: upsert_batch_to_pinecone sends a batch once or twice, the second
\* time exactly when the first attempt raised and after one pause; it
\* answers True exactly when an attempt went through, and the loop, not an
\* exception, takes its answer.
C18_PineconeOneRetry ==
    vec.adapter = "pinecone" =>
        /\ \A b \in 1..Len(vec.batches) :
              LET batch == vec.batches[b]
              IN  /\ batch.attempts \in {<<>>, <<"ok">>, <<"err", "ok">>, <<"err", "err">>}
                  /\ batch.attempts = <<>> <=> batch.records = <<>>
                  /\ batch.inserted = Len(batch.records) <=>
                        (batch.attempts = <<>> \/ batch.attempts[Len(batch.attempts)] = "ok")
                  /\ batch.inserted \in {0, Len(batch.records)}
        /\ vec.attempts = (IF vec.pc = "pinecone_retry" THEN <<"err">> ELSE <<>>)
        /\ vec.sleeps = Len(vec.attempts)
                          + Cardinality({b \in 1..Len(vec.batches) :
                                            Len(vec.batches[b].attempts) = 2})
        /\ vec.pc = "returned" => "status" \in DOMAIN vec.result

C18_Witness ==
    /\ vec.adapter = "pinecone"
    /\ vec.pc = "pinecone_loop"
    /\ Len(vec.batches) = 2
    /\ vec.batches[1].attempts = <<"err", "err">>
    /\ vec.batches[2].attempts = <<"err", "ok">>
    /\ vec.sleeps = 2

QdrantBatches == IF vec.adapter = "qdrant" THEN vec.batches ELSE <<>>

\* C19 as stated: upsert_batch_to_qdrant succeeds exactly when an attempt
\* returned COMPLETED; a first attempt that raises or returns another status
\* is followed by exactly one further attempt after a pause; there are at
\* most two attempts and the function never raises.
C19_QdrantRetryOnAnyFailure ==
    /\ \A b \in 1..Len(QdrantBatches) :
          LET batch == QdrantBatches[b]
              n == Len(batch.attempts)
          IN  /\ n <= 2
              /\ batch.records /= <<>> =>
                    /\ n >= 1
                    /\ batch.inserted = Len(batch.records) <=>
                          batch.attempts[n] = "completed"
                    /\ batch.inserted \in {0, Len(batch.records)}
                    /\ batch.attempts[1] /= "completed" => n = 2
    /\ vec.adapter = "qdrant" =>
          vec.sleeps = Len(vec.attempts)
                         + Cardinality({b \in 1..Len(vec.batches) :
                                           vec.batches[b].records /= <<>>
                                           /\ vec.batches[b].attempts[1] /= "completed"})

\* the parts of C19 that the code keeps: at most two attempts, the second
\* only after a first that raised and after one pause, success exactly on a
\* COMPLETED answer
C19_QdrantRetryOnRaise ==
    /\ \A b \in 1..Len(QdrantBatches) :
          LET batch == QdrantBatches[b]
              n == Len(batch.attempts)
          IN  /\ n <= 2
              /\ batch.records /= <<>> =>
                    /\ n >= 1
                    /\ batch.inserted = Len(batch.records) <=>
                          batch.attempts[n] = "completed"
                    /\ batch.inserted \in {0, Len(batch.records)}
                    /\ n = 2 <=> batch.attempts[1] = "raise"
    /\ vec.adapter = "qdrant" =>
          vec.sleeps = Len(vec.attempts)
                         + Cardinality({b \in 1..Len(vec.batches) :
                                           Len(vec.batches[b].attempts) = 2})

C19_FirstStatusNotCompleted ==
    /\ vec.adapter = "qdrant"
    /\ vec.pc = "returned"
    /\ Len(vec.batches) = 1
    /\ vec.batches[1].attempts = <<"other">>
    /\ vec.sleeps = 0
    /\ vec.result = Returned(0)

\* the first embedding of the file in file order, looked for chunk by chunk
FirstNonNull(chunks) ==
    SelectSeq(chunks, LAMBDA chunk : "embedding" \in DOMAIN chunk
                                       /\ chunk.embedding /= None)

\* C20: insert_to_qdrant creates the collection only when the lookup failed,
\* at most once and before any upsert, with the size of the first non-null
\* embedding in file order and cosine distance; a collection that was found
\* is never created, and when the lookup failed and no chunk has an
\* embedding the function returns 0 without a creation or an upsert.
C20_CollectionCreatedOnce ==
    (vec.adapter = "qdrant" /\ vec.pc /= "start") =>
        /\ Len(vec.created) <= 1
        /\ \A c \in 1..Len(vec.created) :
              /\ vec.lookup = "failed"
              /\ vec.created[c].before = 0
              /\ FirstNonNull(vec.file.items) /= <<>>
              /\ vec.created[c].size = Dimension(FirstNonNull(vec.file.items)[1].embedding)
              /\ vec.created[c].distance = "Cosine"
              /\ ~vec.created[c].ok => (vec.pc = "returned" /\ vec.batches = <<>>)
        /\ vec.lookup = "found" => vec.created = <<>>
        /\ vec.batches /= <<>> => (vec.lookup = "found" \/ Len(vec.created) = 1)
        /\ (vec.lookup = "failed" /\ vec.file.kind = "array"
                /\ FirstNonNull(vec.file.items) = <<>>)
           => /\ vec.pc = "returned"
              /\ vec.result = Returned(0)
              /\ vec.created = <<>>
              /\ vec.batches = <<>>

C20_Witness ==
    /\ vec.adapter = "qdrant"
    /\ vec.pc = "returned"
    /\ Len(vec.file.items) = 3
    /\ ~HasEmbedding(vec.file.items[1])
    /\ HasEmbedding(vec.file.items[2])
    /\ HasEmbedding(vec.file.items[3])
    /\ Dimension(vec.file.items[2].embedding) /= Dimension(vec.file.items[3].embedding)
    /\ Len(vec.created) = 1
    /\ vec.created[1].size = Dimension(vec.file.items[2].embedding)
    /\ vec.result = Returned(2)

C20_WitnessNoEmbedding ==
    /\ vec.adapter = "qdrant"
    /\ vec.pc = "returned"
    /\ vec.lookup = "failed"
    /\ Len(vec.file.items) = 2
    /\ FirstNonNull(vec.file.items) = <<>>
    /\ vec.result = Returned(0)

\* the run read its file and went through its batch loop to the end
RanLoop ==
    /\ vec.pc = "returned"
    /\ vec.file.kind = "array"
    /\ vec.setup = "none"
    /\ vec.adapter = "qdrant" =>
          (vec.lookup = "found" \/ (vec.created /= <<>> /\ vec.created[1].ok))

\* the number the run reports
InsertedCount ==
    IF vec.adapter = "pinecone" THEN vec.result.inserted_count ELSE vec.result.returned

\* C17: in the three adapters a batch that could not be inserted does not
\* stop the run: every chunk of the file is in a batch of the run, every
\* batch with a valid record is sent, and the reported count is the sum of
\* what the batches inserted.
C17_FailedBatchDoesNotStopRun ==
    RanLoop =>
        /\ SumSeq([b \in 1..Len(vec.batches) |-> Len(vec.batches[b].chunks)])
              = Len(vec.file.items)
        /\ \A j \in 1..Len(vec.file.items) :
              \E b \in 1..Len(vec.batches) :
                 \E k \in 1..Len(vec.batches[b].chunks) :
                    vec.batches[b].chunks[k] = vec.file.items[j]
        /\ \A b \in 1..Len(vec.batches) :
              (\E k \in 1..Len(vec.batches[b].chunks) :
                    HasEmbedding(vec.batches[b].chunks[k]))
              => vec.batches[b].attempts /= <<>>
        /\ InsertedCount
              = SumSeq([b \in 1..Len(vec.batches) |-> vec.batches[b].inserted])

\* a first batch that failed, a second one that was inserted
FailedThenInserted(adapter) ==
    /\ RanLoop
    /\ vec.adapter = adapter
    /\ Len(vec.batches) = 2
    /\ vec.batches[1].records /= <<>>
    /\ vec.batches[1].inserted = 0
    /\ vec.batches[2].inserted = 1
    /\ InsertedCount = 1

C17_Witness ==
    /\ FailedThenInserted("qdrant")
    /\ vec.batches[1].attempts = <<"raise", "other">>
    /\ Len(vec.batches[1].records) = QDRANT_BATCH_SIZE

C17_WitnessPinecone == FailedThenInserted("pinecone")

C17_WitnessWeaviate == FailedThenInserted("weaviate")

\* the Weaviate objects built so far, each with the date of its chunk
WeaviateDates ==
    UNION { { [given |-> vec.chunks[vec.batches[b][k].properties.chunk_index].date,
               result |-> vec.batches[b][k].properties.date] :
              k \in 1..Len(vec.batches[b]) } : b \in 1..Len(vec.batches) }

Unparseable(date_str) ==
    \/ date_str.py /= "str"
    \/ date_str.form \in {"empty", "blank", "garbage"}
    \/ (date_str.form = "year_month" /\ date_str.names[2] \notin 1..12)

\* YYYY-MM-DDTHH:MM:SSZ
FixedForm(t) ==
    /\ t.tail = "Z"
    /\ t.date[1] \in 0..9999 /\ t.date[2] \in 1..12 /\ t.date[3] \in 1..31
    /\ t.time[1] \in 0..23 /\ t.time[2] \in 0..59 /\ t.time[3] \in 0..59

\* C27 as stated: normalize_date_to_rfc3339 returns, for every input, a
\* string of the form YYYY-MM-DDTHH:MM:SSZ, and 1970-01-01T00:00:00Z when
\* the input is empty, not a string, or cannot be parsed.
C27_DateAlwaysFixedForm ==
    \A d \in WeaviateDates :
       /\ FixedForm(d.result)
       /\ Unparseable(d.given) => d.result = Epoch

\* the same for every input but a date and time that carries a UTC offset
C27_DateFixedFormUnlessOffset ==
    \A d \in WeaviateDates :
       /\ (d.given.py = "str" /\ d.given.form = "aware")
              => d.result.tail = "+00:00Z"
       /\ ~(d.given.py = "str" /\ d.given.form = "aware") => FixedForm(d.result)
       /\ Unparseable(d.given) => d.result = Epoch
       /\ ~Unparseable(d.given) =>
              d.result.date[1] = d.given.names[1]

C27_OffsetBeforeZ ==
    \E d \in WeaviateDates :
       /\ d.given = DateStr("aware", <<2023, 1, 15, 10, 20, 30>>)
       /\ d.result = Timestamp(<<2023, 1, 15>>, <<10, 20, 30>>, "+00:00Z")

\* C36: a chunk with an embedding whose sparse indices or values cannot be
\* coerced yields a vector with the chunk's embedding as values and without
\* sparse_values; coercible sparse data give sparse_values with the indices
\* as integers and the values, both in the order of the chunk.
C36_BadSparseKeepsDenseVector ==
    vec.pc = "pinecone" =>
       \A pos \in 1..Len(vec.chunks) :
          LET chunk == vec.chunks[pos]
              made == { k \in 1..Len(vec.vectors) : vec.vectors[k].id = chunk.id }
              sparse == IF "sparse_embedding" \in DOMAIN chunk
                          THEN chunk.sparse_embedding ELSE None
          IN  Get(chunk, "embedding", None) /= None =>
                /\ Cardinality(made) = 1
                /\ \A k \in made :
                      LET vector == vec.vectors[k]
                      IN  /\ vector.values = chunk.embedding
                          /\ IF sparse = ValidSparse
                               THEN /\ "sparse_values" \in DOMAIN vector
                                    /\ vector.sparse_values =
                                          [indices |-> <<7, 3>>,
                                           values |-> <<Float(1, 3), Float(2, 3)>>]
                               ELSE "sparse_values" \notin DOMAIN vector

\* a vector was prepared from a chunk whose sparse indices, and one from a
\* chunk whose sparse values, cannot be coerced
C36_Witness ==
    /\ vec.pc = "pinecone"
    /\ \E j, k \in 1..Len(vec.vectors) :
          LET sparse(n) == Get(vec.chunks[vec.vectors[n].id[2]], "sparse_embedding",
                               ValidSparse)
          IN  /\ sparse(j).indices = <<"7", "x">>
              /\ sparse(k).values[2] = NotANumber

\* vectors were prepared from a file with coercible sparse data
C36_WitnessCoerced ==
    /\ vec.pc = "pinecone"
    /\ \E k \in 1..Len(vec.vectors) :
          /\ "sparse_values" \in DOMAIN vec.vectors[k]
          /\ vec.vectors[k].sparse_values.indices = <<7, 3>>

\* the chunk of the file a prepared point was made from
ChunkOfPoint(point) == vec.chunks[point.payload.chunk_index]

\* C28 as stated: the payload of the point of a chunk of the pipeline holds
\* the chunk id as original_id, the text of the chunk as chunk_text, and the
\* metadata the other adapters send.
C28_PayloadCarriesChunkText ==
    \A k \in 1..Len(vec.points) :
       LET point == vec.points[k]
           chunk == ChunkOfPoint(point)
       IN  /\ point.payload.original_id = chunk.id
           /\ point.payload.chunk_text = chunk.text
           /\ \A field \in {"title", "date", "doc_id", "chunk_index"} :
                 point.payload[field] = chunk[field]

\* what the payload holds: the id and the metadata, and an empty chunk_text
C28_PayloadWithoutText ==
    \A k \in 1..Len(vec.points) :
       LET point == vec.points[k]
           chunk == ChunkOfPoint(point)
       IN  /\ point.payload.original_id = chunk.id
           /\ point.payload.chunk_text = EmptyText
           /\ chunk.text /= EmptyText
           /\ Without(point.payload, "original_id") = Metadata(chunk)
           /\ \A field \in {"title", "date", "doc_id", "chunk_index"} :
                 point.payload[field] = chunk[field]

C28_TextLeftOut ==
    /\ vec.pc = "qdrant"
    /\ Len(vec.points) = 2
    /\ vec.points[1].payload.chunk_text = EmptyText
    /\ ChunkOfPoint(vec.points[1]).text = Segment(1, vec.points[1].payload.chunk_index)

\* the chunk a stored point or object was made from
StoredChunkId(r) ==
    IF "payload" \in DOMAIN r THEN r.payload.original_id
    ELSE <<r.properties.doc_id, r.properties.chunk_index>>

\* the ids of the chunks of the file whose embedding is not null
EmbeddedIds ==
    {vec.file.items[j].id : j \in {k \in 1..Len(vec.file.items) :
                                      HasEmbedding(vec.file.items[k])}}

\* C11: with insert_to_qdrant and insert_to_weaviate_hybrid the collection
\* never holds two records of one chunk id, and after the same file was
\* inserted twice it holds exactly one record per chunk id with a non-null
\* embedding, as it did after the first insertion.
C11_SecondInsertionOverwrites ==
    vec.adapter \in {"qdrant", "weaviate"} =>
        /\ \A k, l \in 1..Len(vec.collection) :
              StoredChunkId(vec.collection[k]) = StoredChunkId(vec.collection[l]) => k = l
        /\ (vec.pc = "returned" /\ vec.run >= 2 /\ vec.full = vec.run) =>
              /\ vec.collection = vec.after_first
              /\ {StoredChunkId(vec.collection[k]) : k \in 1..Len(vec.collection)}
                    = EmbeddedIds
              /\ Len(vec.collection) = Cardinality(EmbeddedIds)

InsertedTwice(adapter) ==
    /\ vec.adapter = adapter
    /\ vec.pc = "returned"
    /\ vec.run = 2
    /\ vec.full = 2
    /\ Len(vec.collection) = 2
    /\ Len(vec.file.items) = 3
    /\ vec.result = Returned(2)

C11_Witness == InsertedTwice("weaviate")

C11_WitnessQdrant == InsertedTwice("qdrant") /\ vec.lookup = "found"

\* identifier and chunk id of the records sent by the run so far, and of
\* those the collection holds
SentAndStored ==
    UNION {{<<RecordKey(vec.batches[b].records[j]), StoredChunkId(vec.batches[b].records[j])>> :
               j \in 1..Len(vec.batches[b].records)} : b \in 1..Len(vec.batches)}
      \cup {<<RecordKey(vec.collection[k]), StoredChunkId(vec.collection[k])>> :
               k \in 1..Len(vec.collection)}

InsertManyCalls == {b \in 1..Len(vec.batches) : vec.batches[b].attempts /= <<>>}

\* C21: insert_to_weaviate_hybrid calls insert_many only after the tenant
\* was found in the listing or created; it does not create a tenant that the
\* listing holds; when the tenant is neither found nor created it returns 0
\* and nothing was inserted.
C21_TenantResolvedBeforeInsert ==
    (vec.adapter = "weaviate" /\ vec.pc /= "start") =>
        /\ InsertManyCalls /= {} =>
              \/ vec.lookup = "listed"
              \/ \E c \in 1..Len(vec.created) : vec.created[c].ok
        /\ vec.lookup = "listed" => vec.created = <<>>
        /\ Len(vec.created) <= 2
        /\ \A c \in 1..Len(vec.created) : vec.created[c].ok => c = Len(vec.created)
        /\ (vec.lookup \in {"not_listed", "raised"}
                /\ \A c \in 1..Len(vec.created) : ~vec.created[c].ok)
           => /\ vec.pc = "returned"
              /\ vec.result = Returned(0)
              /\ vec.batches = <<>>
              /\ vec.run = 1 => vec.collection = <<>>

C21_Witness ==
    /\ vec.adapter = "weaviate"
    /\ vec.pc = "returned"
    /\ vec.lookup = "not_listed"
    /\ vec.created = <<[ok |-> FALSE], [ok |-> TRUE]>>
    /\ InsertManyCalls /= {}
    /\ vec.result = Returned(2)

C21_WitnessNoTenant ==
    /\ vec.adapter = "weaviate"
    /\ vec.pc = "returned"
    /\ vec.lookup = "raised"
    /\ vec.created = <<[ok |-> FALSE]>>
    /\ Len(vec.file.items) = 2
    /\ vec.result = Returned(0)

\* C22: whenever the connection succeeded, the count that
\* insert_to_weaviate_hybrid returns is the sum over its batches of the
\* objects sent minus the objects reported in error, 0 for a batch whose
\* insert_many raised: the number of objects the run inserted.
C22_WeaviateCountIsSumOfBatches ==
    (vec.adapter = "weaviate" /\ vec.pc = "returned"
        /\ vec.file.kind /= "absent" /\ vec.setup \in {"none", "tenant"})
    => /\ vec.result =
            Returned(SumSeq([b \in 1..Len(vec.batches) |->
                       CASE vec.batches[b].attempts = <<"raise">> -> 0
                         [] vec.batches[b].attempts = <<"errors">> ->
                              Len(vec.batches[b].records) - 1
                         [] OTHER -> Len(vec.batches[b].records)]))
       /\ \A b \in 1..Len(vec.batches) :
             vec.batches[b].records = BatchDataObjects(vec.batches[b].chunks)
       /\ vec.run = 1 => vec.result = Returned(Len(vec.collection))

C22_Witness ==
    /\ vec.adapter = "weaviate"
    /\ vec.pc = "returned"
    /\ Len(vec.batches) = 2
    /\ vec.batches[1].attempts = <<"errors">>
    /\ Len(vec.batches[1].records) = WEAVIATE_BATCH_SIZE
    /\ vec.batches[2].attempts = <<"ok">>
    /\ vec.result = Returned(WEAVIATE_BATCH_SIZE)

----------------------------------------------------------------------------
(* The counting and the snapshots of generate_and_save_embeddings           *)
(* (rad_chunk.py 364-403) on documents of up to a thousand chunks and more; *)
(* a chunk is its id, since the count does not depend on what the embedding *)
(* request answers                                                          *)

MaxSnapshotDocs == 2   \* documents of an input file

\* numbers of chunks of a document: one, a little over a batch, and around
\* the snapshot period
DocSizes ==
    {1, DEFAULT_EMBEDDING_BATCH_SIZE + 8, SnapshotEvery - 1, SnapshotEvery,
     SnapshotEvery + DEFAULT_EMBEDDING_BATCH_SIZE + 8}

\* chunks_by_doc of a file whose documents have the given sizes
DocsOfSizes(sizes) ==
    [d \in 1..Len(sizes) |-> [doc_id |-> d, chunks |-> [j \in 1..sizes[d] |-> <<d, j>>]]]

IdleSnapshot ==
    [pc |-> "doc", chunks_by_doc |-> <<>>, doc |-> 1, i |-> 0,
     embedded_doc_chunks |-> <<>>, all_chunks_with_embeddings |-> <<>>,
     processed_chunk_count |-> 0, ends |-> <<>>,
     temp_file |-> Absent, dense_file |-> Absent, writes |-> 0]

InitSnapshot ==
    /\ df = <<>>
    /\ store0 = Absent
    /\ store = Absent
    /\ SAVE_LOCK = 0
    /\ task = <<>>
    /\ appendLog = <<>>
    /\ vec = <<>>
    /\ ocr = <<>>
    /\ \E n \in 0..MaxSnapshotDocs : \E sizes \in [1..n -> DocSizes] :
          emb = [IdleSnapshot EXCEPT !.chunks_by_doc = DocsOfSizes(sizes)]

\* the test of the intermediate save (line 396)
SnapshotDue(count) ==
    count > 0 /\ count % SnapshotEvery < DEFAULT_EMBEDDING_BATCH_SIZE

\* one batch of the document joins embedded_doc_chunks (lines 386-389)
SnapshotBatch ==
    LET doc_chunks_list == emb.chunks_by_doc[emb.doc].chunks
    IN  /\ emb.pc = "doc"
        /\ emb.doc <= Len(emb.chunks_by_doc)
        /\ emb.i < Len(doc_chunks_list)
        /\ emb' = [emb EXCEPT
                     !.i = @ + DEFAULT_EMBEDDING_BATCH_SIZE,
                     !.embedded_doc_chunks =
                        @ \o Slice(doc_chunks_list, emb.i, DEFAULT_EMBEDDING_BATCH_SIZE)]
        /\ UNCHANGED <<chunkVars, vec, ocr>>

\* the end of a document (lines 392-399): the count grows by the document
\* and the temporary file is overwritten when the test says so
SnapshotEndDoc ==
    LET all == emb.all_chunks_with_embeddings \o emb.embedded_doc_chunks
        count == emb.processed_chunk_count + Len(emb.embedded_doc_chunks)
        due == SnapshotDue(count)
    IN  /\ emb.pc = "doc"
        /\ emb.doc <= Len(emb.chunks_by_doc)
        /\ emb.i >= Len(emb.chunks_by_doc[emb.doc].chunks)
        /\ emb' = [emb EXCEPT
                     !.doc = @ + 1, !.i = 0,
                     !.embedded_doc_chunks = <<>>,
                     !.all_chunks_with_embeddings = all,
                     !.processed_chunk_count = count,
                     !.ends = Append(@, [before |-> emb.processed_chunk_count,
                                         count |-> count,
                                         saved |-> IF due THEN Len(all) ELSE -1]),
                     !.temp_file = IF due THEN JsonArray(all) ELSE @]
        /\ UNCHANGED <<chunkVars, vec, ocr>>

\* the overwrite of the output file after the last document (lines 401-403)
SnapshotSaveDense ==
    /\ emb.pc = "doc"
    /\ emb.doc > Len(emb.chunks_by_doc)
    /\ emb' = [emb EXCEPT !.pc = "done", !.writes = @ + 1,
                          !.dense_file = JsonArray(emb.all_chunks_with_embeddings)]
    /\ UNCHANGED <<chunkVars, vec, ocr>>

NextSnapshot ==
    \/ SnapshotBatch
    \/ SnapshotEndDoc
    \/ SnapshotSaveDense

SpecSnapshot == InitSnapshot /\ [][NextSnapshot]_vars

\* C23 as stated: whenever the count of processed chunks reaches or passes
\* a multiple of 1000, the temporary file is written with all the chunks
\* processed so far before the next document is taken; the output file is
\* written once, after all documents, with every chunk.
C23_SnapshotAtEveryThousand ==
    /\ \A e \in 1..Len(emb.ends) :
          emb.ends[e].count \div SnapshotEvery > emb.ends[e].before \div SnapshotEvery
             => emb.ends[e].saved = emb.ends[e].count
    /\ emb.writes = (IF emb.pc = "done" THEN 1 ELSE 0)
    /\ emb.pc = "done" =>
          emb.dense_file = JsonArray(Flatten([d \in 1..Len(emb.chunks_by_doc) |->
                                                 emb.chunks_by_doc[d].chunks]))

\* what the code does: the temporary file is written after a document
\* exactly when the count, taken modulo 1000, is below the batch size
C23_SnapshotWhenRemainderSmall ==
    /\ \A e \in 1..Len(emb.ends) :
          emb.ends[e].saved =
             (IF emb.ends[e].count > 0
                   /\ emb.ends[e].count % SnapshotEvery < DEFAULT_EMBEDDING_BATCH_SIZE
                THEN emb.ends[e].count ELSE -1)
    /\ emb.writes = (IF emb.pc = "done" THEN 1 ELSE 0)
    /\ emb.pc = "done" =>
          emb.dense_file = JsonArray(Flatten([d \in 1..Len(emb.chunks_by_doc) |->
                                                 emb.chunks_by_doc[d].chunks]))

C23_ThousandPassedWithoutSnapshot ==
    /\ emb.pc = "done"
    /\ Len(emb.ends) = 2
    /\ emb.ends[1].count = SnapshotEvery - 1
    /\ emb.ends[2].count = SnapshotEvery + DEFAULT_EMBEDDING_BATCH_SIZE + 7
    /\ emb.temp_file = Absent

----------------------------------------------------------------------------
(* extract_sparse_features (rad_chunk.py 409-449) on the lemmas the         *)
(* language model retains from a text, in one interpreter process and in    *)
(* the next: hash() of a string is salted per process                       *)

MaxLemmas == 3        \* retained lemma occurrences of a text
MaxExtractions == 2   \* extractions from the same text

SparseDimensions == 100000

Lemmas == {"chat", "chien"}

\* values hash() can give a lemma; the first two are equal modulo
\* SparseDimensions
HashValues == {7, SparseDimensions + 7, 8}

\* hash() of the strings in one process
HashFunctions == [Lemmas -> HashValues]

RetainedLemmas == UNION { [1..n -> Lemmas] : n \in 0..MaxLemmas }

\* positions of the first occurrences of the elements of a sequence
FirstOccurrences(s) ==
    SelectSeq([j \in 1..Len(s) |-> j], LAMBDA j : \A k \in 1..(j - 1) : s[k] /= s[j])

\* Counter(lemmas) (line 436): the distinct lemmas in order of first
\* occurrence, each with its number of occurrences
Counter(lemmas) ==
    LET firsts == FirstOccurrences(lemmas)
    IN  [n \in 1..Len(firsts) |->
            [lemma |-> lemmas[firsts[n]],
             count |-> Cardinality({k \in 1..Len(lemmas) : lemmas[k] = lemmas[firsts[n]]})]]

\* str(index)
Str(index) == [str |-> index]

\* lines 436-449: sparse_dict[str(index)] = count / total for each counted
\* lemma in turn, so a key keeps its first place and its last value; a value
\* is the fraction <<count, total>>
SparseFeatures(lemmas, hash) ==
    LET counts == Counter(lemmas)
        total_lemmas_in_doc == SumSeq([n \in 1..Len(counts) |-> counts[n].count])
        index == [n \in 1..Len(counts) |-> hash[counts[n].lemma] % SparseDimensions]
        keys == FirstOccurrences(index)
        Last(i) == CHOOSE n \in 1..Len(counts) :
                      /\ index[n] = i
                      /\ \A k \in (n + 1)..Len(counts) : index[k] /= i
    IN  [indices |-> [m \in 1..Len(keys) |-> Str(index[keys[m]])],
         values |-> [m \in 1..Len(keys) |->
                        <<counts[Last(index[keys[m]])].count, total_lemmas_in_doc>>]]

InitFeatures ==
    /\ df = <<>>
    /\ store0 = Absent
    /\ store = Absent
    /\ SAVE_LOCK = 0
    /\ task = <<>>
    /\ appendLog = <<>>
    /\ vec = <<>>
    /\ ocr = <<>>
    /\ \E lemmas \in RetainedLemmas, hash \in HashFunctions :
          emb = [lemmas |-> lemmas, hash |-> hash, process |-> 1, extractions |-> <<>>]

\* extract_sparse_features is called on the text
ExtractFeatures ==
    /\ Len(emb.extractions) < MaxExtractions
    /\ emb' = [emb EXCEPT !.extractions =
                  Append(@, [process |-> emb.process, hash |-> emb.hash,
                             features |-> SparseFeatures(emb.lemmas, emb.hash)])]
    /\ UNCHANGED <<chunkVars, vec, ocr>>

\* the pipeline is run again: a new interpreter with its own hash salt
StartProcess ==
    /\ emb.process <= Len(emb.extractions)
    /\ Len(emb.extractions) < MaxExtractions
    /\ \E hash \in HashFunctions :
          emb' = [emb EXCEPT !.process = @ + 1, !.hash = hash]
    /\ UNCHANGED <<chunkVars, vec, ocr>>

NextFeatures ==
    \/ ExtractFeatures
    \/ StartProcess

SpecFeatures == InitFeatures /\ [][NextFeatures]_vars

\* the indices the lemmas of the text map to under a hash
IndicesOf(hash) == {hash[emb.lemmas[k]] % SparseDimensions : k \in 1..Len(emb.lemmas)}

\* C25 as stated: for a text with a retained lemma the features hold one
\* index and one value per distinct index, and the value at an index is the
\* number of retained occurrences that map to it over the number of all
\* retained occurrences, so the values sum to 1, collisions included.
C25_TermFrequencyPerIndex ==
    \A e \in 1..Len(emb.extractions) :
       LET f == emb.extractions[e].features
           hash == emb.extractions[e].hash
       IN  Len(emb.lemmas) > 0 =>
             /\ Len(f.indices) = Len(f.values)
             /\ Len(f.indices) = Cardinality(IndicesOf(hash))
             /\ {f.indices[m].str : m \in 1..Len(f.indices)} = IndicesOf(hash)
             /\ \A m \in 1..Len(f.indices) :
                   f.values[m] =
                      <<Cardinality({k \in 1..Len(emb.lemmas) :
                                       hash[emb.lemmas[k]] % SparseDimensions
                                          = f.indices[m].str}),
                        Len(emb.lemmas)>>
             /\ SumSeq([m \in 1..Len(f.values) |-> f.values[m][1]]) = Len(emb.lemmas)

\* the same holds of every text whose distinct lemmas have distinct indices
C25_TermFrequencyWithoutCollision ==
    \A e \in 1..Len(emb.extractions) :
       LET f == emb.extractions[e].features
           hash == emb.extractions[e].hash
           distinct == {emb.lemmas[k] : k \in 1..Len(emb.lemmas)}
       IN  Cardinality(IndicesOf(hash)) = Cardinality(distinct) =>
             /\ Len(f.indices) = Len(f.values)
             /\ {f.indices[m].str : m \in 1..Len(f.indices)} = IndicesOf(hash)
             /\ \A m \in 1..Len(f.indices) :
                   f.values[m] =
                      <<Cardinality({k \in 1..Len(emb.lemmas) :
                                       hash[emb.lemmas[k]] % SparseDimensions
                                          = f.indices[m].str}),
                        Len(emb.lemmas)>>
             /\ SumSeq([m \in 1..Len(f.values) |-> f.values[m][1]]) = Len(emb.lemmas)

\* two lemmas on one index: the value of the second replaces the first
C25_CollisionLosesWeight ==
    /\ emb.lemmas = <<"chat", "chien", "chien">>
    /\ Len(emb.extractions) = 1
    /\ emb.extractions[1].features =
          [indices |-> <<Str(7)>>, values |-> <<<<2, 3>>>>]

\* C26 as stated: extracting the features of the same text gives the same
\* indices and values in every invocation and in every run of the pipeline.
C26_SameFeaturesEveryRun ==
    \A e1, e2 \in 1..Len(emb.extractions) :
       emb.extractions[e1].features = emb.extractions[e2].features

\* within one process the features of a text are always the same
C26_SameFeaturesInOneProcess ==
    \A e1, e2 \in 1..Len(emb.extractions) :
       emb.extractions[e1].process = emb.extractions[e2].process
          => emb.extractions[e1].features = emb.extractions[e2].features

C26_OtherProcessOtherIndices ==
    /\ Len(emb.extractions) = 2
    /\ emb.lemmas = <<"chat">>
    /\ emb.extractions[1].process /= emb.extractions[2].process
    /\ emb.extractions[1].features.indices /= emb.extractions[2].features.indices

----------------------------------------------------------------------------
(* The driver of the chunking script: the phases of __main__ *)

MaxDriverChunks == 2      \* chunks process_all_documents writes in a run

\* a file that exists and holds no byte
EmptyFile == [kind |-> "empty", items |-> <<>>]

\* the n-th chunk written by the run named, with the stages that have
\* added their field to it
DriverChunk(n, run) == [id |-> n, run |-> run, fields |-> {}]

EarlierChunks == <<DriverChunk(1, "earlier")>>

\* os.path.exists(f) and os.path.getsize(f) > 0
ExistsNotEmpty(file) == file.kind \notin {"absent", "empty"}

\* the names --input is given, and name.lower().endswith(suffix)
InputNames ==
    {"in.csv", "in.txt", "out_chunks.json", "out_chunks_with_embeddings.json", "in.json"}

EndsWith(name, suffix) ==
    CASE suffix = ".csv" -> name = "in.csv"
      [] suffix = "_chunks.json" -> name = "out_chunks.json"
      [] suffix = "_chunks_with_embeddings.json" -> name = "out_chunks_with_embeddings.json"
      [] suffix = ".json" ->
            name \in {"out_chunks.json", "out_chunks_with_embeddings.json", "in.json"}
      [] OTHER -> FALSE

\* what a stage leaves in a file it writes with open(f, 'w') and json.dump
WriteOutcomes == {"written", "open_raised", "dump_raised"}

Overwrite(file, items, outcome) ==
    CASE outcome = "written" -> JsonArray(items)
      [] outcome = "open_raised" -> file
      [] outcome = "dump_raised" -> EmptyFile

\* process_all_documents(df, json_file): the documents of the run yield n
\* chunks, appended to what the file holds (lines 170-185); an exception of
\* a document task is caught (lines 290-294)
process_all_documents(file, n, outcome) ==
    LET existing_chunks == IF file.kind = "array" THEN file.items ELSE <<>>
    IN  IF n = 0 THEN file
        ELSE Overwrite(file, existing_chunks \o [k \in 1..n |-> DriverChunk(k, "this")],
                       outcome)

\* a stage that adds its field to every chunk of the input file and
\* overwrites the output file: generate_and_save_embeddings ("embedding")
\* and generate_sparse_embeddings ("sparse_embedding")
EmbeddingStage(input, output, field, outcome) ==
    CASE input.kind = "absent" ->
            [returned |-> "None", raised |-> FALSE, output |-> output]
      [] input.kind /= "array" ->
            [returned |-> "", raised |-> TRUE, output |-> output]
      [] OTHER ->
            [returned |-> "output_json_file", raised |-> outcome /= "written",
             output |-> Overwrite(output,
                           [k \in 1..Len(input.items) |->
                               [input.items[k] EXCEPT !.fields = @ \cup {field}]],
                           outcome)]

IdleDriver ==
    [pc |-> "start", phase |-> "all", input |-> "in.csv",
     files |-> [input |-> Absent, chunks |-> Absent, dense |-> Absent, sparse |-> Absent],
     stages |-> <<>>, exit |-> -1]

Exit(code) == [emb EXCEPT !.pc = "exited", !.exit = code]

\* the stage has run: its record is logged, with whether the stage wrote
\* its output file, and the driver exits or goes on
StageDone(stage, input, files, produced, ok, last) ==
    [emb EXCEPT !.files = files,
                !.stages = Append(@, [stage |-> stage, input |-> input,
                                      output |-> files[stage],
                                      produced |-> produced]),
                !.pc = IF ~ok \/ last THEN "exited"
                       ELSE IF stage = "chunks" THEN "dense" ELSE "sparse",
                !.exit = IF ~ok THEN 1 ELSE IF last THEN 0 ELSE -1]

InitDriver ==
    /\ df = <<>>
    /\ store0 = Absent
    /\ store = Absent
    /\ SAVE_LOCK = 0
    /\ task = <<>>
    /\ appendLog = <<>>
    /\ vec = <<>>
    /\ ocr = <<>>
    /\ \E phase \in {"initial", "dense", "sparse", "all"}, input \in InputNames,
          given \in {Absent, EmptyFile, JsonArray(EarlierChunks)},
          chunks \in {Absent, EmptyFile, BadJson, JsonArray(EarlierChunks)},
          later \in {Absent, JsonArray(EarlierChunks)} :
          emb = [IdleDriver EXCEPT !.phase = phase, !.input = input,
                    !.files = [input |-> given, chunks |-> chunks,
                               dense |-> later, sparse |-> later]]

\* the output directory and the module-level tools (lines 513-560)
DriverSetup(failure) ==
    /\ emb.pc = "start"
    /\ emb' = IF failure /= "none" THEN Exit(1)
              ELSE [emb EXCEPT !.pc = CASE emb.phase \in {"initial", "all"} -> "initial"
                                        [] emb.phase = "dense" -> "dense"
                                        [] OTHER -> "sparse"]
    /\ UNCHANGED <<chunkVars, vec, ocr>>

\* phase initial (lines 563-598)
InitialStage(read_ok, remove_ok, n, outcome) ==
    /\ emb.pc = "initial"
    /\ IF ~EndsWith(emb.input, ".csv") \/ emb.files.input.kind = "absent" \/ ~read_ok
         THEN emb' = Exit(1)
         ELSE LET removed == IF emb.files.chunks.kind /= "absent" /\ remove_ok
                               THEN Absent ELSE emb.files.chunks
                  written == process_all_documents(removed, n, outcome)
              IN  emb' = StageDone("chunks", emb.files.input,
                                   [emb.files EXCEPT !.chunks = written],
                                   n > 0 /\ outcome = "written",
                                   ExistsNotEmpty(written), emb.phase = "initial")
    /\ UNCHANGED <<chunkVars, vec, ocr>>

\* phase dense (lines 600-619)
DenseStage(outcome) ==
    LET input_for_dense == IF emb.phase = "all" THEN emb.files.chunks ELSE emb.files.input
        r == EmbeddingStage(input_for_dense, emb.files.dense, "embedding", outcome)
    IN  /\ emb.pc = "dense"
        /\ IF emb.phase /= "all" /\ ~EndsWith(emb.input, "_chunks.json")
                                 /\ ~EndsWith(emb.input, ".json")
             THEN emb' = Exit(1)
             ELSE emb' = StageDone("dense", input_for_dense,
                                   [emb.files EXCEPT !.dense = r.output],
                                   ~r.raised /\ r.returned /= "None",
                                   ~r.raised /\ r.returned /= "None" /\ ExistsNotEmpty(r.output),
                                   emb.phase = "dense")
        /\ UNCHANGED <<chunkVars, vec, ocr>>

\* phase sparse (lines 621-643)
SparseStage(outcome) ==
    LET input_for_sparse == IF emb.phase = "all" THEN emb.files.dense ELSE emb.files.input
        r == EmbeddingStage(input_for_sparse, emb.files.sparse, "sparse_embedding", outcome)
    IN  /\ emb.pc = "sparse"
        /\ IF emb.phase /= "all" /\ ~EndsWith(emb.input, "_chunks_with_embeddings.json")
                                 /\ ~EndsWith(emb.input, ".json")
             THEN emb' = Exit(1)
             ELSE emb' = StageDone("sparse", input_for_sparse,
                                   [emb.files EXCEPT !.sparse = r.output],
                                   ~r.raised /\ r.returned /= "None",
                                   ~r.raised /\ r.returned /= "None" /\ ExistsNotEmpty(r.output),
                                   TRUE)
        /\ UNCHANGED <<chunkVars, vec, ocr>>

NextDriver ==
    \/ \E failure \in {"none", "makedirs", "TEXT_SPLITTER", "nlp"} : DriverSetup(failure)
    \/ \E read_ok, remove_ok \in BOOLEAN, n \in 0..MaxDriverChunks,
          outcome \in WriteOutcomes : InitialStage(read_ok, remove_ok, n, outcome)
    \/ \E outcome \in WriteOutcomes : DenseStage(outcome)
    \/ \E outcome \in WriteOutcomes : SparseStage(outcome)

SpecDriver == InitDriver /\ [][NextDriver]_vars

StageOrder == <<"chunks", "dense", "sparse">>

\* the stage logged at k left an output file that exists and is not empty
OutputNotEmpty(k) == ExistsNotEmpty(emb.stages[k].output)

\* C29 as stated: in phase all the stages run in the order initial, dense,
\* sparse; a stage starts only after the stage before it produced a non-empty
\* output file, which it reads; the process exits with code 0 when the three
\* stages produced their output and with code 1, without a later stage, as
\* soon as one did not.
C29_EachStageOnOutputProducedBefore ==
    emb.phase = "all" =>
        /\ Len(emb.stages) <= 3
        /\ \A k \in 1..Len(emb.stages) : emb.stages[k].stage = StageOrder[k]
        /\ \A k \in 2..Len(emb.stages) :
              /\ emb.stages[k - 1].produced
              /\ OutputNotEmpty(k - 1)
              /\ emb.stages[k].input = emb.stages[k - 1].output
        /\ emb.pc = "exited" =>
              /\ emb.exit \in {0, 1}
              /\ emb.exit = 0 <=>
                    /\ Len(emb.stages) = 3
                    /\ \A k \in 1..3 : emb.stages[k].produced /\ OutputNotEmpty(k)

\* what holds: the same with "the chunks file exists and is not empty" in
\* place of "the initial stage produced a non-empty chunks file"
C29_EachStageOnNonEmptyFile ==
    emb.phase = "all" =>
        /\ Len(emb.stages) <= 3
        /\ \A k \in 1..Len(emb.stages) : emb.stages[k].stage = StageOrder[k]
        /\ \A k \in 2..Len(emb.stages) :
              /\ k > 2 => emb.stages[k - 1].produced
              /\ OutputNotEmpty(k - 1)
              /\ emb.stages[k].input = emb.stages[k - 1].output
        /\ emb.pc = "exited" =>
              /\ emb.exit \in {0, 1}
              /\ emb.exit = 0 <=>
                    /\ Len(emb.stages) = 3
                    /\ \A k \in 1..3 :
                          (k > 1 => emb.stages[k].produced) /\ OutputNotEmpty(k)
        /\ (Len(emb.stages) > 1 /\ ~emb.stages[1].produced) =>
              emb.stages[1].output \in {BadJson, JsonArray(EarlierChunks)}

C29_EarlierChunksEmbedded ==
    /\ emb.phase = "all"
    /\ emb.pc = "exited"
    /\ emb.exit = 0
    /\ ~emb.stages[1].produced
    /\ emb.files.sparse.kind = "array"
    /\ Len(emb.files.sparse.items) = 1
    /\ emb.files.sparse.items[1].run = "earlier"
    /\ emb.files.sparse.items[1].fields = {"embedding", "sparse_embedding"}

----------------------------------------------------------------------------
(* Resolution of an attachment path by load_zotero_to_dataframe             *)
(* (rad_dataframe.py 408-490): a file name is a sequence of characters;     *)
(* "e'" is the precomposed e with acute accent, "'" the combining acute     *)
(* accent, "zh" a CJK ideograph and "fi" the ligature U+FB01                *)

MaxCandidates == 2        \* files under the searched directory

NonAscii == {"e'", "'", "zh", "fi"}
NotAlnum == {".", "-"}

\* canonical and compatibility decomposition of one character
Decompose(c, compat) ==
    CASE c = "e'" -> <<"e", "'">>
      [] c = "fi" /\ compat -> <<"f", "i">>
      [] OTHER -> <<c>>

\* unicodedata.normalize('NFD', s) and unicodedata.normalize('NFKD', s)
NFD(s) == Flatten([k \in 1..Len(s) |-> Decompose(s[k], FALSE)])
NFKD(s) == Flatten([k \in 1..Len(s) |-> Decompose(s[k], TRUE)])

\* canonical composition of a decomposed string
RECURSIVE Compose(_)
Compose(s) ==
    IF Len(s) < 2 THEN s
    ELSE IF s[1] = "e" /\ s[2] = "'" THEN <<"e'">> \o Compose(SubSeq(s, 3, Len(s)))
    ELSE <<s[1]>> \o Compose(Tail(s))

\* unicodedata.normalize('NFC', s)
NFC(s) == Compose(NFD(s))

\* s.lower()
Lower(s) == [k \in 1..Len(s) |-> IF s[k] = "E" THEN "e" ELSE s[k]]

\* unicodedata.category(c) != 'Mn' filters the combining marks
strip_accents(s) == SelectSeq(NFD(s), LAMBDA c : c /= "'")

\* encode('ascii', 'ignore') drops what is not ASCII
ascii_flat(s) == Lower(SelectSeq(NFKD(s), LAMBDA c : c \notin NonAscii))

alphanum_only(s) == SelectSeq(ascii_flat(s), LAMBDA c : c \notin NotAlnum)

Min3(x, y, z) == Min(x, Min(y, z))

\* a variant that counts a substitution for equal characters too
RECURSIVE CostlyRow(_, _, _, _)
CostlyRow(current_row, previous_row, ca, b) ==
    LET j == Len(current_row)
    IN  IF j > Len(b) THEN current_row
        ELSE CostlyRow(Append(current_row,
                           Min3(previous_row[j + 1] + 1, current_row[j] + 1,
                                previous_row[j] + 1)),
                       previous_row, ca, b)

\* the inner loop of levenshtein: the row of character ca (lines 26-30)
RECURSIVE CurrentRow(_, _, _, _)
CurrentRow(current_row, previous_row, ca, b) ==
    LET j == Len(current_row)
        insertions == previous_row[j + 1] + 1
        deletions == current_row[j] + 1
        substitutions == previous_row[j] + (IF ca /= b[j] THEN 1 ELSE 0)
    IN  IF j > Len(b) THEN current_row
        ELSE CurrentRow(Append(current_row, Min3(insertions, deletions, substitutions)),
                        previous_row, ca, b)

RECURSIVE LevenshteinRows(_, _, _, _)
LevenshteinRows(previous_row, a, b, i) ==
    IF i > Len(a) THEN previous_row[Len(previous_row)]
    ELSE LevenshteinRows(CurrentRow(<<i>>, previous_row, a[i], b), a, b, i + 1)

\* levenshtein(a, b) (lines 17-32)
levenshtein(a, b) ==
    LET long == IF Len(a) < Len(b) THEN b ELSE a
        short == IF Len(a) < Len(b) THEN a ELSE b
    IN  IF Len(short) = 0 THEN Len(long)
        ELSE LevenshteinRows([j \in 1..(Len(short) + 1) |-> j - 1], long, short, 1)

\* target_names and f_forms (lines 426-433, 436-443)
NameForms(name) ==
    << Lower(NFC(name)), Lower(NFD(name)),
       Lower(strip_accents(NFC(name))), Lower(strip_accents(NFD(name))),
       ascii_flat(name), alphanum_only(name) >>

\* the test of one candidate f (lines 451-459)
Matches(target, f) ==
    LET target_names == NameForms(target)
        f_forms == NameForms(f)
        t_alpha == alphanum_only(target)
        f_alpha == alphanum_only(f)
        lev == levenshtein(t_alpha, f_alpha)
        fuzzy_match == lev <= 2 /\ Min(Len(t_alpha), Len(f_alpha)) > 0
    IN  (\E i, j \in 1..6 : target_names[i] = f_forms[j]) \/ fuzzy_match

Pdf(stem) == stem \o <<".", "p", "d", "f">>

\* file names of attachments in the export: they end in .pdf
TargetNames ==
    { Pdf(<<"e'">>), Pdf(<<"a", "-", "b", "c">>), Pdf(<<"zh">>), Pdf(<<"fi">>) }

\* file names found under the directory
CandidateNames ==
    TargetNames \cup { Pdf(<<"e", "'">>), Pdf(<<"E">>),
                       Pdf(<<"a", "b", "c", "d", "e">>), <<"-">> }

\* a file of the directory of the attachment (dir "") or of a directory
\* below it
File(dir, name) == [dir |-> dir, name |-> name]

\* os.path.join(os.path.dirname(actual_pdf_path), f) (line 460)
JoinDirname(actual_pdf_path, f) == File(actual_pdf_path.dir, f)

\* the files os.walk yields: those of the directory first, then those of the
\* directories below it; within a directory in any order
Listings ==
    { l \in UNION { [1..n -> [dir : {"", "sub"}, name : CandidateNames]] :
                      n \in 0..MaxCandidates } :
        /\ \A i, j \in 1..Len(l) : i < j => l[i] /= l[j]
        /\ \A i, j \in 1..Len(l) : (i < j /\ l[i].dir = "sub") => l[j].dir = "sub" }

\* os.path.exists(path)
PathExists(listing, path) == \E k \in 1..Len(listing) : listing[k] = path

IdleResolve ==
    [pc |-> "attachment", target |-> <<>>, listing |-> <<>>,
     actual_pdf_path |-> None, k |-> 0, found |-> FALSE, compared |-> <<>>,
     handed |-> <<>>, records |-> <<>>]

InitResolve ==
    /\ df = <<>>
    /\ store0 = Absent
    /\ store = Absent
    /\ SAVE_LOCK = 0
    /\ task = <<>>
    /\ appendLog = <<>>
    /\ emb = <<>>
    /\ vec = <<>>
    /\ \E target \in TargetNames, listing \in Listings :
          ocr = [IdleResolve EXCEPT !.target = target, !.listing = listing]

\* lines 411-419: the path of the attachment is resolved against the base
\* directory; when nothing is there the candidates are listed
ResolvePath ==
    LET actual_pdf_path == File("", ocr.target)
    IN  /\ ocr.pc = "attachment"
        /\ ocr' = [ocr EXCEPT !.actual_pdf_path = actual_pdf_path,
                              !.pc = IF PathExists(ocr.listing, actual_pdf_path)
                                       THEN "ocr" ELSE "candidates",
                              !.k = 1]
        /\ UNCHANGED <<chunkVars, emb, vec>>

\* one turn of the loop over the candidates (lines 435-463)
CompareCandidate ==
    LET f == ocr.listing[ocr.k].name
        accepted == Matches(ocr.target, f)
    IN  /\ ocr.pc = "candidates"
        /\ ocr.k <= Len(ocr.listing)
        /\ ocr' = [ocr EXCEPT
                     !.compared = Append(@, [k |-> ocr.k, accepted |-> accepted]),
                     !.actual_pdf_path = IF accepted THEN JoinDirname(@, f) ELSE @,
                     !.found = accepted,
                     !.pc = IF accepted THEN "ocr" ELSE "candidates",
                     !.k = IF accepted THEN @ ELSE @ + 1]
        /\ UNCHANGED <<chunkVars, emb, vec>>

\* lines 464-467: no candidate matched, the attachment is passed over
NotFound ==
    /\ ocr.pc = "candidates"
    /\ ocr.k > Len(ocr.listing)
    /\ ocr' = [ocr EXCEPT !.pc = "skipped"]
    /\ UNCHANGED <<chunkVars, emb, vec>>

\* lines 469-490: extract_text_with_ocr on the resolved path; every tier
\* fails on a path that names no file, and the attachment is dropped
ExtractText(outcome) ==
    LET readable == PathExists(ocr.listing, ocr.actual_pdf_path)
    IN  /\ ocr.pc = "ocr"
        /\ ocr' = [ocr EXCEPT
                     !.handed = Append(@, ocr.actual_pdf_path),
                     !.pc = IF readable /\ outcome = "text" THEN "record" ELSE "dropped",
                     !.records = IF readable /\ outcome = "text"
                                   THEN Append(@, [filename |-> ocr.target,
                                                   path |-> ocr.actual_pdf_path])
                                   ELSE @]
        /\ UNCHANGED <<chunkVars, emb, vec>>

NextResolve ==
    \/ ResolvePath
    \/ CompareCandidate
    \/ NotFound
    \/ \E outcome \in {"text", "OCRExtractionError"} : ExtractText(outcome)

SpecResolve == InitResolve /\ [][NextResolve]_vars

----------------------------------------------------------------------------
(* Properties of the attachment resolution *)

\* b is obtained from a by at most n insertions, deletions and
\* substitutions of one character
RECURSIVE WithinEdits(_, _, _)
WithinEdits(a, b, n) ==
    IF a = <<>> THEN Len(b) <= n
    ELSE IF b = <<>> THEN Len(a) <= n
    ELSE IF Head(a) = Head(b) THEN WithinEdits(Tail(a), Tail(b), n)
    ELSE /\ n > 0
         /\ \/ WithinEdits(Tail(a), b, n - 1)
            \/ WithinEdits(a, Tail(b), n - 1)
            \/ WithinEdits(Tail(a), Tail(b), n - 1)

\* the normalized forms of a name: NFC, NFD, accent-stripped,
\* ASCII-flattened, alphanumeric-only
NormalizedForms(name) == {NameForms(name)[i] : i \in 1..6}

ShouldAccept(target, f) ==
    \/ NormalizedForms(target) \cap NormalizedForms(f) /= {}
    \/ /\ WithinEdits(alphanum_only(target), alphanum_only(f), 2)
       /\ alphanum_only(target) /= <<>>
       /\ alphanum_only(f) /= <<>>

\* the candidates of the listing that should be accepted, in listing order
Acceptable == {k \in 1..Len(ocr.listing) : ShouldAccept(ocr.target, ocr.listing[k].name)}

\* C31: when the path of the attachment does not exist, a candidate is
\* accepted exactly when one of its normalized forms is one of the target's
\* or the alphanumeric-only forms, both non-empty, are at edit distance 2 at
\* most; the first accepted candidate of the listing is the one used; with no
\* accepted candidate the attachment gives no row and OCR is not attempted.
C31_FirstMatchingCandidateUsed ==
    LET acceptable == Acceptable
    IN  /\ \A c \in 1..Len(ocr.compared) :
              ocr.compared[c].accepted <=> ocr.compared[c].k \in acceptable
        /\ (ocr.pc \in {"ocr", "record", "dropped"} /\ ocr.compared /= <<>>) =>
              /\ acceptable /= {}
              /\ \A k \in acceptable :
                    (\A j \in acceptable : k <= j) =>
                        ocr.actual_pdf_path.name = ocr.listing[k].name
              /\ \A h \in 1..Len(ocr.handed) : ocr.handed[h] = ocr.actual_pdf_path
        /\ ocr.pc = "skipped" =>
              /\ acceptable = {}
              /\ Len(ocr.compared) = Len(ocr.listing)
              /\ ocr.handed = <<>>
              /\ ocr.records = <<>>

\* the second candidate is accepted by its distance alone, after a first
\* candidate that was rejected
C31_Witness ==
    /\ ocr.pc = "record"
    /\ Len(ocr.compared) = 2
    /\ ~ocr.compared[1].accepted
    /\ ocr.compared[2].accepted
    /\ NormalizedForms(ocr.target) \cap NormalizedForms(ocr.listing[2].name) = {}
    /\ ~WithinEdits(alphanum_only(ocr.target), alphanum_only(ocr.listing[2].name), 1)

C31_WitnessNoCandidate ==
    /\ ocr.pc = "skipped"
    /\ Len(ocr.listing) = 2
    /\ \A k \in 1..2 :
          ~WithinEdits(alphanum_only(ocr.target), alphanum_only(ocr.listing[k].name), 2)

C31_WitnessAccentForms ==
    /\ ocr.pc = "record"
    /\ ocr.target = Pdf(<<"e'">>)
    /\ ocr.found
    /\ ocr.actual_pdf_path.name = Pdf(<<"e", "'">>)

\* the candidate the resolution matched
MatchedCandidate == ocr.listing[ocr.k]

\* C40 as stated: when the resolution reports a match, the path handed to OCR
\* names an existing file, the matched candidate itself, in whichever
\* directory under the searched one the candidate was found.
C40_ResolvedPathIsMatchedCandidate ==
    (ocr.found /\ ocr.handed /= <<>>) =>
        /\ ocr.handed[1] = MatchedCandidate
        /\ PathExists(ocr.listing, ocr.handed[1])

\* what holds: the path is the matched candidate when the candidate lies in
\* the directory of the attachment itself, and has the name of the candidate
\* in every case
C40_ResolvedPathOfSameDirectory ==
    (ocr.found /\ ocr.handed /= <<>>) =>
        /\ ocr.handed[1].name = MatchedCandidate.name
        /\ ocr.handed[1].dir = ""
        /\ MatchedCandidate.dir = "" =>
              (ocr.handed[1] = MatchedCandidate /\ PathExists(ocr.listing, ocr.handed[1]))
        /\ MatchedCandidate.dir /= "" =>
              (~PathExists(ocr.listing, ocr.handed[1]) /\ ocr.records = <<>>)

C40_MatchBelowNamesNoFile ==
    /\ ocr.pc = "dropped"
    /\ ocr.found
    /\ MatchedCandidate.dir = "sub"
    /\ ocr.handed = <<File("", MatchedCandidate.name)>>
    /\ ~PathExists(ocr.listing, ocr.handed[1])

----------------------------------------------------------------------------
(* One attempt of the Mistral provider: _extract_text_with_mistral          *)
(* (rad_dataframe.py 144-245), its requests and what it returns or raises   *)

MaxPages == 2             \* pages of an OCR response

\* texts of a response: null, blank, or with content
PageTexts == {"null", " ", "A", "B"}

\* isinstance(t, str) and t.strip()
HasText(t) == t \notin {"null", " "}

\* the JSON document the OCR request answers with
OcrResponses ==
    { [text |-> t, pages |-> pages] :
        t \in {"null", " ", "A"},
        pages \in UNION { [1..n -> PageTexts] : n \in 0..MaxPages } }

\* "\n\n".join(dict.fromkeys(text_fragments)).strip(): the fragments with
\* content, each once, in the order of their first occurrence (lines 214-230)
MarkdownText(response_payload) ==
    LET text_fragments ==
            (IF HasText(response_payload.text) THEN <<response_payload.text>> ELSE <<>>)
            \o SelectSeq(response_payload.pages, HasText)
        firsts == FirstOccurrences(text_fragments)
    IN  [n \in 1..Len(firsts) |-> text_fragments[firsts[n]]]

IdleMistral ==
    [pc |-> "start", MISTRAL_API_KEY |-> TRUE, MISTRAL_DELETE_UPLOADED_FILE |-> TRUE,
     file_id |-> "", requests |-> <<>>, response |-> None,
     markdown_text |-> <<>>, result |-> "none"]

InitMistral ==
    /\ df = <<>>
    /\ store0 = Absent
    /\ store = Absent
    /\ SAVE_LOCK = 0
    /\ task = <<>>
    /\ appendLog = <<>>
    /\ emb = <<>>
    /\ vec = <<>>
    /\ \E key, delete \in BOOLEAN :
          ocr = [IdleMistral EXCEPT !.MISTRAL_API_KEY = key,
                                    !.MISTRAL_DELETE_UPLOADED_FILE = delete]

\* the attempt ends with an exception
RaiseFrom(o, error) == [o EXCEPT !.pc = "raised", !.result = error]

\* lines 145-176: the key, the file and the upload request; the id of the
\* uploaded file is read from the answer
MistralUpload(outcome) ==
    /\ ocr.pc = "start"
    /\ ocr' =
         IF ~ocr.MISTRAL_API_KEY THEN RaiseFrom(ocr, "OCRExtractionError")
         ELSE IF outcome = "open_failed" THEN RaiseFrom(ocr, "OSError")
         ELSE LET sent == [ocr EXCEPT !.requests = Append(@, "upload")]
              IN  CASE outcome = "failed" -> RaiseFrom(sent, "RequestException")
                    [] outcome = "no_id" -> RaiseFrom(sent, "OCRExtractionError")
                    [] OTHER -> [sent EXCEPT !.pc = "uploaded", !.file_id = "file_id"]
    /\ UNCHANGED <<chunkVars, emb, vec>>

\* lines 178-233: the OCR request on the uploaded file and the text of its
\* answer; a failed request and an answer without text raise
MistralOcr(failed, response_payload) ==
    LET sent == [ocr EXCEPT !.requests = Append(@, "ocr")]
        markdown_text == MarkdownText(response_payload)
    IN  /\ ocr.pc = "uploaded"
        /\ ocr' =
             IF failed THEN RaiseFrom(sent, "RequestException")
             ELSE IF markdown_text = <<>>
               THEN RaiseFrom([sent EXCEPT !.response = response_payload],
                              "OCRExtractionError")
             ELSE [sent EXCEPT !.response = response_payload,
                               !.markdown_text = markdown_text,
                               !.pc = "cleanup"]
        /\ UNCHANGED <<chunkVars, emb, vec>>

\* lines 235-247: the uploaded file is deleted when deletion is enabled, a
\* failure of the request is logged, and the text is returned
MistralDelete(failed) ==
    /\ ocr.pc = "cleanup"
    /\ ocr' = [ocr EXCEPT
                 !.requests = IF ocr.MISTRAL_DELETE_UPLOADED_FILE
                                THEN Append(@, IF failed THEN "delete failed" ELSE "delete")
                                ELSE @,
                 !.file_id = IF ocr.MISTRAL_DELETE_UPLOADED_FILE /\ ~failed
                               THEN "" ELSE @,
                 !.pc = "returned",
                 !.result = "markdown_text"]
    /\ UNCHANGED <<chunkVars, emb, vec>>

NextMistral ==
    \/ \E outcome \in {"id", "no_id", "failed", "open_failed"} : MistralUpload(outcome)
    \/ \E failed \in BOOLEAN, response_payload \in OcrResponses :
          MistralOcr(failed, response_payload)
    \/ \E failed \in BOOLEAN : MistralDelete(failed)

SpecMistral == InitMistral /\ [][NextMistral]_vars

\* the attempt has ended
AttemptEnded == ocr.pc \in {"returned", "raised"}

DeleteRequests == SelectSeq(ocr.requests, LAMBDA r : r \in {"delete", "delete failed"})

\* C32 as stated: when the upload succeeded and deletion is enabled, a delete
\* request for the uploaded file has been issued by the end of the attempt,
\* whether the OCR request succeeded, failed or gave no text.
C32_UploadedFileDeleted ==
    (AttemptEnded /\ Len(ocr.requests) >= 2 /\ ocr.MISTRAL_DELETE_UPLOADED_FILE)
        => Len(DeleteRequests) = 1

\* what holds: the delete request is issued exactly when the attempt returns
\* text with deletion enabled, once, after the OCR request, and whether it
\* fails or not the text is returned
C32_DeletedOnlyAfterText ==
    AttemptEnded =>
        /\ Len(DeleteRequests) =
              (IF ocr.result = "markdown_text" /\ ocr.MISTRAL_DELETE_UPLOADED_FILE
                 THEN 1 ELSE 0)
        /\ DeleteRequests /= <<>> =>
              /\ ocr.requests = <<"upload", "ocr">> \o DeleteRequests
              /\ ocr.result = "markdown_text"
              /\ ocr.markdown_text = MarkdownText(ocr.response)
              /\ ocr.markdown_text /= <<>>

C32_FileLeftAfterFailedOcr ==
    /\ ocr.pc = "raised"
    /\ ocr.MISTRAL_DELETE_UPLOADED_FILE
    /\ ocr.requests = <<"upload", "ocr">>
    /\ ocr.file_id = "file_id"
    /\ ocr.result = "RequestException"

C32_FileLeftAfterEmptyAnswer ==
    /\ ocr.pc = "raised"
    /\ ocr.MISTRAL_DELETE_UPLOADED_FILE
    /\ ocr.requests = <<"upload", "ocr">>
    /\ ocr.file_id = "file_id"
    /\ ocr.result = "OCRExtractionError"
    /\ ocr.response = [text |-> " ", pages |-> <<"null", " ">>]

\* ------------------------------------------------------------------
\* Reading of a Zotero export
\* (src/scripts/rad_dataframe.py 378-495, src/app/utils/zotero_parser.py)
\* ------------------------------------------------------------------

MaxItems == 2

\* a URI as its segments between slashes; NoUri is the empty string
NoUri == <<>>
UserUri == <<"http:", "", "zotero.org", "users", "12345", "items", "ABC123XY">>
GroupUri == <<"http:", "", "zotero.org", "Groups", "67890", "items", "GHI789WX">>
OtherUri == <<"http:", "", "zotero.org", "users", "me", "items", "ABC123XY">>

Digits == {"12345", "67890"}
ItemKeys == {"ABC123XY", "GHI789WX"}
LowerName(str) == IF str = "Groups" THEN "groups" ELSE str

\* URI_PATTERN.search (lines 20-23, 41-47): library type, id and item key
extract_library_info_from_uri(uri) ==
    LET starts == { i \in 1..Len(uri) :
                      /\ i + 4 <= Len(uri)
                      /\ uri[i] = "zotero.org"
                      /\ LowerName(uri[i + 1]) \in {"users", "groups"}
                      /\ uri[i + 2] \in Digits
                      /\ uri[i + 3] = "items"
                      /\ uri[i + 4] \in ItemKeys }
    IN  IF starts = {} THEN None
        ELSE LET i == CHOOSE i \in starts : \A j \in starts : i <= j
             IN  [py |-> "tuple", library_type |-> LowerName(uri[i + 1]),
                  library_id |-> uri[i + 2], item_key |-> uri[i + 4]]

NoLibrary == [type |-> "", id |-> ""]

\* an attachment: its path, and the text OCR gives for the file ("" when
\* the file is not found or no tier gives text)
PdfWithText == [path |-> "a.pdf", title |-> "Full Text", text |-> "A"]
PdfWithoutText == [path |-> "b.pdf", title |-> "Scan", text |-> ""]
HtmlSnapshot == [path |-> "page.html", title |-> "Snapshot", text |-> "H"]

\* items of an export; a field the item lacks is the empty value of its kind
ZoteroItems ==
    { [itemType |-> "journalArticle", itemKey |-> "", key |-> "ABC123XY",
       title |-> "Article", uri |-> UserUri,
       library |-> [type |-> "user", id |-> "12345"],
       attachments |-> <<PdfWithText, HtmlSnapshot>>],
      [itemType |-> "book", itemKey |-> "", key |-> "",
       title |-> "Book", uri |-> GroupUri, library |-> NoLibrary,
       attachments |-> <<PdfWithoutText, PdfWithText>>],
      [itemType |-> "attachment", itemKey |-> "GHI789WX", key |-> "",
       title |-> "File", uri |-> NoUri, library |-> NoLibrary,
       attachments |-> <<>>],
      [itemType |-> "report", itemKey |-> "", key |-> "",
       title |-> "Report", uri |-> OtherUri, library |-> NoLibrary,
       attachments |-> <<PdfWithText>>] }

\* the two shapes of an export, as json.load returns them
BareArray(items) == [py |-> "list", items |-> items]
ItemsObject(items) == [py |-> "dict", items |-> items]

ZoteroExports ==
    LET lists == UNION { [1..n -> ZoteroItems] : n \in 0..MaxItems }
    IN  { BareArray(items) : items \in lists } \cup
        { ItemsObject(items) : items \in lists }

\* lines 392-491: the records of one item, one per PDF attachment with text
ItemRecords(item) ==
    LET pdfs == SelectSeq(item.attachments,
                          LAMBDA a : a.path \in {"a.pdf", "b.pdf"} /\ a.text /= "")
    IN  [n \in 1..Len(pdfs) |->
           [type |-> item.itemType, title |-> item.title,
            filename |-> pdfs[n].path, attachment_title |-> pdfs[n].title,
            texteocr |-> pdfs[n].text]]

\* lines 384-495: data.get("items", []) raises AttributeError on a list,
\* the outer handler logs it and the frame of the records so far is returned
load_zotero_to_dataframe(data) ==
    IF data.py = "list" THEN <<>>
    ELSE Flatten([n \in 1..Len(data.items) |-> ItemRecords(data.items[n])])

\* the values of ZOTERO_USER_ID and ZOTERO_GROUP_ID
Environments ==
    { [ZOTERO_USER_ID |-> "", ZOTERO_GROUP_ID |-> ""],
      [ZOTERO_USER_ID |-> "15681", ZOTERO_GROUP_ID |-> ""],
      [ZOTERO_USER_ID |-> "", ZOTERO_GROUP_ID |-> "4242"] }

LibraryFound(library_type, library_id) ==
    [success |-> TRUE, library_type |-> library_type, library_id |-> library_id,
     error |-> ""]
LibraryError(error) ==
    [success |-> FALSE, library_type |-> "", library_id |-> "", error |-> error]

\* lines 166-196: the library one item names, by its library field or its URI
LibraryOfItem(item) ==
    IF item.library.type /= "" /\ item.library.id /= ""
      THEN LibraryFound(CASE item.library.type = "user" -> "users"
                          [] item.library.type = "group" -> "groups"
                          [] OTHER -> item.library.type,
                        item.library.id)
      ELSE LET lib_info == IF item.uri = NoUri THEN None
                           ELSE extract_library_info_from_uri(item.uri)
           IN  IF lib_info = None THEN LibraryError("")
               ELSE LibraryFound(lib_info.library_type, lib_info.library_id)

\* lines 134-226, after the file was found and read
extract_library_info_from_session(data, env) ==
    LET items == data.items
        naming == { n \in 1..Len(items) : LibraryOfItem(items[n]).success }
    IN  CASE items = <<>> -> LibraryError("No items found in Zotero JSON")
          [] naming /= {} ->
               LibraryOfItem(items[CHOOSE n \in naming : \A k \in naming : n <= k])
          [] env.ZOTERO_USER_ID /= "" -> LibraryFound("users", env.ZOTERO_USER_ID)
          [] env.ZOTERO_GROUP_ID /= "" -> LibraryFound("groups", env.ZOTERO_GROUP_ID)
          [] OTHER -> LibraryError("Could not extract library information")

\* lines 273-287: the key of one item, "" when it has none
KeyOfItem(item) ==
    CASE item.itemKey /= "" -> item.itemKey
      [] item.key /= "" -> item.key
      [] OTHER -> LET lib_info == extract_library_info_from_uri(item.uri)
                  IN  IF lib_info = None THEN "" ELSE lib_info.item_key

\* lines 249-299
extract_item_keys_from_json(data) ==
    LET parents == SelectSeq(data.items,
                             LAMBDA item : /\ item.itemType \notin {"attachment", "note"}
                                           /\ KeyOfItem(item) /= "")
    IN  [n \in 1..Len(parents) |->
           [itemKey |-> KeyOfItem(parents[n]), title |-> parents[n].title,
            itemType |-> parents[n].itemType, uri |-> parents[n].uri]]

NotCalled == [py |-> "not called"]

IdleZotero ==
    [data |-> BareArray(<<>>), dataframe |-> NotCalled, library_info |-> NotCalled,
     items_info |-> NotCalled]

InitZotero ==
    /\ df = <<>>
    /\ store0 = Absent
    /\ store = Absent
    /\ SAVE_LOCK = 0
    /\ task = <<>>
    /\ appendLog = <<>>
    /\ emb = <<>>
    /\ vec = <<>>
    /\ \E data \in ZoteroExports : ocr = [IdleZotero EXCEPT !.data = data]

\* rad_dataframe.py reads the export
LoadZotero ==
    /\ ocr.dataframe = NotCalled
    /\ ocr' = [ocr EXCEPT !.dataframe =
                 [py |-> "DataFrame", records |-> load_zotero_to_dataframe(ocr.data)]]
    /\ UNCHANGED <<chunkVars, emb, vec>>

\* the application asks for the library of the session
LibraryInfo(env) ==
    /\ ocr.library_info = NotCalled
    /\ ocr' = [ocr EXCEPT !.library_info =
                 [py |-> "dict", info |-> extract_library_info_from_session(ocr.data, env),
                  env |-> env]]
    /\ UNCHANGED <<chunkVars, emb, vec>>

\* the application asks for the keys of the items
ItemKeysOfExport ==
    /\ ocr.items_info = NotCalled
    /\ ocr' = [ocr EXCEPT !.items_info =
                 [py |-> "list", items |-> extract_item_keys_from_json(ocr.data)]]
    /\ UNCHANGED <<chunkVars, emb, vec>>

NextZotero ==
    \/ LoadZotero
    \/ \E env \in Environments : LibraryInfo(env)
    \/ ItemKeysOfExport

SpecZotero == InitZotero /\ [][NextZotero]_vars

\* the same items in the other shape
OtherShape(data) ==
    IF data.py = "list" THEN ItemsObject(data.items) ELSE BareArray(data.items)

\* every PDF attachment with text, of every item, has its record
EveryItemProcessed ==
    \A n \in 1..Len(ocr.data.items) :
       LET item == ocr.data.items[n]
       IN  \A a \in 1..Len(item.attachments) :
              LET attachment == item.attachments[a]
              IN  attachment.path \in {"a.pdf", "b.pdf"} /\ attachment.text /= "" =>
                     \E r \in 1..Len(ocr.dataframe.records) :
                        /\ ocr.dataframe.records[r].title = item.title
                        /\ ocr.dataframe.records[r].filename = attachment.path

\* the parser functions give, for an export, what they give for the same
\* items in the other shape
ParserSameForBothShapes ==
    /\ ocr.library_info /= NotCalled =>
          ocr.library_info.info =
             extract_library_info_from_session(OtherShape(ocr.data), ocr.library_info.env)
    /\ ocr.items_info /= NotCalled =>
          /\ ocr.items_info.items = extract_item_keys_from_json(OtherShape(ocr.data))
          /\ \A n \in 1..Len(ocr.data.items) :
                LET item == ocr.data.items[n]
                IN  item.itemType = "journalArticle" =>
                       \E k \in 1..Len(ocr.items_info.items) :
                          ocr.items_info.items[k].title = item.title

\* C37: for the same items, load_zotero_to_dataframe,
\* extract_library_info_from_session and extract_item_keys_from_json process
\* every item and give the same result for a bare array of items and for an
\* object with an items array.
C37_BothShapesSameResult ==
    /\ ParserSameForBothShapes
    /\ ocr.dataframe /= NotCalled =>
          /\ ocr.dataframe.records = load_zotero_to_dataframe(OtherShape(ocr.data))
          /\ EveryItemProcessed

\* C37, what holds: the two parser functions give the same result for either
\* shape, and load_zotero_to_dataframe processes every item of an object
\* with an items array.
C37_ParserSameAndObjectLoaded ==
    /\ ParserSameForBothShapes
    /\ ocr.dataframe /= NotCalled /\ ocr.data.py = "dict" => EveryItemProcessed

\* a bare array holding an item with a readable PDF was loaded into a frame
\* without records, and the parser found its library and its key
C37_BareArrayLoadsNothing ==
    /\ ocr.data.py = "list"
    /\ \E n \in 1..Len(ocr.data.items) : ItemRecords(ocr.data.items[n]) /= <<>>
    /\ ocr.dataframe /= NotCalled
    /\ ocr.dataframe.records = <<>>
    /\ ocr.library_info /= NotCalled
    /\ ocr.library_info.info.success
    /\ ocr.items_info /= NotCalled
    /\ ocr.items_info.items /= <<>>

\* ------------------------------------------------------------------
\* Calls of insert_to_pinecone
\* (src/app/main.py 722-909, src/scripts/rad_vectordb.py 108)
\* ------------------------------------------------------------------

\* the parameters of insert_to_pinecone (rad_vectordb.py line 108)
PineconeParameters == {"embeddings_json_file", "index_name", "pinecone_api_key"}

\* the keyword arguments of the call of upload_db (main.py lines 784-789)
UploadKeywords == {"embeddings_json_file", "index_name", "pinecone_api_key", "namespace"}

\* a call binds its keyword arguments to parameters of the function, or
\* raises TypeError before the body runs
Binds(parameters, keywords) == keywords \subseteq parameters

\* the form fields of a request; an empty string is a field left empty
Namespaces == {"", " ", "ns"}

\* (pinecone_namespace or "").strip() or None (main.py line 781)
NamespaceValue(pinecone_namespace) ==
    IF pinecone_namespace \in {"", " "} THEN None
    ELSE [py |-> "str", value |-> pinecone_namespace]

JsonResponse(status_code, content) == [status_code |-> status_code, content |-> content]

IdleUpload == [caller |-> "none", namespace |-> None, response |-> None]

InitUpload ==
    /\ df = <<>>
    /\ store0 = Absent
    /\ store = Absent
    /\ SAVE_LOCK = 0
    /\ task = <<>>
    /\ appendLog = <<>>
    /\ emb = <<>>
    /\ ocr = IdleUpload
    /\ \E f \in InsertFiles : vec = [IdleIns EXCEPT !.pc = "idle", !.file = f]

\* upload_db with db_choice "pinecone" (main.py lines 728-809, 904-909): the
\* call of line 784 passes namespace, which insert_to_pinecone does not
\* take, so lines 790-809 run after no call
UploadDb(api_key, pinecone_index_name, pinecone_namespace) ==
    LET namespace_value == NamespaceValue(pinecone_namespace)
        asked == [ocr EXCEPT !.caller = "upload_db", !.namespace = namespace_value]
        Respond(response) ==
            /\ ocr' = [asked EXCEPT !.response = response]
            /\ vec' = [vec EXCEPT !.pc = "responded"]
    IN  /\ vec.pc = "idle"
        /\ CASE vec.file.kind = "absent" ->
                  Respond(JsonResponse(400, [error |-> "Required chunks file not found"]))
             [] vec.file.kind /= "absent" /\ ~api_key ->
                  Respond(JsonResponse(400, [error |-> "Pinecone API Key not found"]))
             [] vec.file.kind /= "absent" /\ api_key /\ ~pinecone_index_name ->
                  Respond(JsonResponse(400, [error |-> "Pinecone Index Name is required"]))
             [] OTHER ->
                  IF Binds(PineconeParameters, UploadKeywords)
                    THEN /\ ocr' = asked
                         /\ vec' = [vec EXCEPT !.pc = "start"]
                    ELSE Respond(JsonResponse(500, [error |-> "An unexpected error occurred",
                                                    details |-> "TypeError"]))
        /\ UNCHANGED <<chunkVars, emb>>

\* a call with the three arguments of the signature
\* (test_rad_vectordb.py line 201)
DirectCall ==
    /\ vec.pc = "idle"
    /\ Binds(PineconeParameters, {})
    /\ ocr' = [ocr EXCEPT !.caller = "direct"]
    /\ vec' = [vec EXCEPT !.pc = "start"]
    /\ UNCHANGED <<chunkVars, emb>>

NextUpload ==
    \/ \E api_key, pinecone_index_name \in BOOLEAN, pinecone_namespace \in Namespaces :
          UploadDb(api_key, pinecone_index_name, pinecone_namespace)
    \/ DirectCall
    \/ \E failure \in PineconeFailures : PineconeStart(failure)
    \/ \E ok \in BOOLEAN : PineconeBatch(ok)
    \/ \E ok \in BOOLEAN : PineconeRetry(ok)
    \/ PineconeReturn

SpecUpload == InitUpload /\ [][NextUpload]_vars

\* the call of upload_db or the direct call has ended
UploadEnded == vec.pc \in {"responded", "returned"}

\* every chunk of the file with an embedding has its vector in the index
EveryVectorUpserted ==
    /\ vec.file.kind = "array"
    /\ \A j \in 1..Len(vec.file.items) :
          HasEmbedding(vec.file.items[j]) =>
             \E k \in 1..Len(vec.collection) : vec.collection[k].id = vec.file.items[j].id

\* C38: insert_to_pinecone called with a namespace, as upload_db calls it
\* with a key, an index name and a file of chunks, upserts every prepared
\* vector and the caller gets the result with status, message and
\* inserted_count.
C38_NamespaceCallUpsertsAndReturns ==
    /\ ocr.caller = "upload_db"
    /\ UploadEnded
    /\ ocr.response.status_code /= 400
    /\ ocr.namespace /= None
    /\ vec.file.kind = "array"
    => /\ DOMAIN ocr.response.content = {"status", "message", "inserted_count"}
       /\ ocr.response.content.status = "success" => EveryVectorUpserted

\* C38, what holds: a call with the three parameters of the signature ends
\* with the result of status, message and inserted_count, and a call that
\* passes a namespace upserts nothing.
C38_OnlySignatureCallReturns ==
    /\ ocr.caller = "direct" /\ UploadEnded =>
          /\ DOMAIN vec.result = {"status", "message", "inserted_count"}
          /\ vec.result.status = "success" => EveryVectorUpserted
    /\ ocr.caller = "upload_db" /\ UploadEnded =>
          /\ vec.collection = <<>>
          /\ vec.batches = <<>>
          /\ "inserted_count" \notin DOMAIN ocr.response.content

\* upload_db was asked for namespace "ns" with a key, an index name and a
\* file whose chunks have embeddings, and answered 500 for a TypeError
C38_NamespaceCallRaises ==
    /\ ocr.caller = "upload_db"
    /\ ocr.namespace = [py |-> "str", value |-> "ns"]
    /\ vec.file.kind = "array"
    /\ \E j \in 1..Len(vec.file.items) : HasEmbedding(vec.file.items[j])
    /\ ocr.response = JsonResponse(500, [error |-> "An unexpected error occurred",
                                         details |-> "TypeError"])
    /\ vec.batches = <<>>

====
